---- MODULE Spec2Model ----
(***************************************************************************)
(* Model of influx-proxy: the per-backend asynchronous write engine        *)
(* (backend.go: worker, WriteBuffer, FlushBuffer, Flush, RewriteIdle,      *)
(* RewriteLoop, Rewrite, Close), the Proxy write fan-out and configuration *)
(* reload (proxy.go), and the admission of the transfer operators          *)
(* (service/http.go).                                                      *)
(***************************************************************************)
EXTENDS Integers, Sequences, FiniteSets, TLC

(* ------------------------------ bounds --------------------------------- *)
\* number of lines the environment hands to WritePoint of the Backend under test
MaxPoints == 2
\* number of well-formed lines the environment sends through Proxy.Write
MaxLines == 1
\* ProxyConfig.FlushSize, ProxyConfig.ConnPoolSize of the modelled configuration
flushSize == 2
connPoolSize == 1
\* lines handed to the Backend, and ConnPoolSize, where the worker's batching is
\* examined with two task goroutines at once
MaxWorkerPoints == 3
widePoolSize == 2
\* capacity of a Backend's channel where a full channel is examined
narrowChan == 1
\* number of goroutine slots available to RewriteLoop (more than the code should ever use)
MaxLoops == 2

\* concurrent admin requests in flight, operator goroutines alive at once
MaxReqs == 2
MaxJobs == 2

(* ------------------------- program constants --------------------------- *)
\* transfer.DefaultWorker, transfer.DefaultBatch, transfer.DefaultLimit
DefaultWorker == 1
DefaultBatch == 25000
DefaultLimit == 1000000

\* make(chan *LinePoint, 16)
ChanCap == 16

(* ------------------------------ universe ------------------------------- *)
DBs == {"db1", "my db"}
\* the backend the single-backend specification exercises
B0 == 1
\* the Backend objects of the two configurations: newCircles(cfg) builds new ones
Backends == 1..6
\* circle index -> the backends of the circle, per generation of ip.circles
Generations == <<
    << <<1, 2>>, <<3>> >>,
    << <<4>>, <<5, 6>> >> >>
GenBackends(g) == UNION {{Generations[g][c][k] : k \in 1..Len(Generations[g][c])} :
                            c \in 1..Len(Generations[g])}
Measurements == {"cpu", "mem"}

\* result of HttpBackend.WriteCompressed: nil, ErrBadRequest, ErrNotFound, any other error
HttpResults == {"ok", "BadRequest", "NotFound", "Transient"}
Terminal == {"ok", "BadRequest", "NotFound"}

VARIABLES
    workerPc,        \* position of the goroutine started by `go ib.worker()`
    closing,         \* the worker has seen chWrite closed and runs the close branch
    chWrite,         \* ib.chWrite: the points in the channel buffer
    chClosed,        \* close(ib.chWrite) was executed
    chTimer,         \* ib.chTimer: 0 when nil, else the id of the point that armed it
    buffers,         \* ib.buffers: map db -> CacheBuffer
    toFlush,         \* databases the running Flush / WriteBuffer still has to FlushBuffer
    poolReleased,    \* ib.pool.Release() was executed
    wg,              \* ib.wg counter
    tasks,           \* pool tasks submitted by FlushBuffer that are running
    Active,          \* ib.Active
    rewriteRunning,  \* ib.rewriteRunning
    loops,           \* RewriteLoop goroutines: slot -> position
    fb,              \* ib.fb: the FileQueue
    httpClosed,      \* ib.HttpBackend.Close() was executed
    nextId,          \* number of lines handed in so far
    handed,          \* history: line ids accepted by WritePoint
    delivered,       \* history: line ids in a batch WriteCompressed acknowledged
    dropped,         \* history: line ids in a batch dropped on BadRequest / NotFound
    lost,            \* history: line ids of batches whose pool task never ran
    doneTasks,       \* history: finished flush tasks
    transferring,    \* hs.tx.CircleState(c).Transferring
    resyncing,       \* hs.tx.Resyncing
    txWorker,        \* hs.tx.Worker
    txBatch,         \* hs.tx.Batch
    txLimit,         \* hs.tx.Limit
    txHaAddrs,       \* hs.tx.HaAddrs
    req,             \* admin requests being handled: slot -> position and form values
    jobs,            \* operator goroutines started by `go hs.tx.<Operator>(...)`
    circles,         \* ip.circles: the generation the Proxy routes to
    writer,          \* an HTTP request inside Proxy.Write / WriteRow
    reload,          \* an HTTP request inside Proxy.ReloadConfig
    lineInfo,        \* history: db, measurement and captured generation of each line
    calls,           \* history: the backends WriteRow called WritePoint on, per line
    accepted,        \* history: lines of the Write calls that returned nil
    fnCall,          \* a function applied to chosen arguments: arguments and results
    hsCfg            \* hs.cfg: the configuration the service runs with

backendVars == <<workerPc, closing, chWrite, chClosed, chTimer, buffers, toFlush,
                 poolReleased, wg, tasks, Active, rewriteRunning, loops, fb,
                 httpClosed, nextId, handed, delivered, dropped, lost, doneTasks>>

adminVars == <<transferring, resyncing, txWorker, txBatch, txLimit, txHaAddrs, req, jobs>>

proxyVars == <<circles, writer, reload, lineInfo, calls, accepted>>

fnVars == <<fnCall, hsCfg>>

vars == <<backendVars, adminVars, proxyVars, fnVars>>

(* ------------------------------ helpers -------------------------------- *)
NL == 0   \* the byte '\n' inside a buffer; every other byte string is a line id > 0

\* the line ids contained in a payload
LinesOf(p) == {p[i] : i \in 1..Len(p)} \ {NL}

\* a key that is not in ib.buffers
NoCacheBuffer == [present |-> FALSE, isNil |-> TRUE, Buffer |-> <<>>, Counter |-> 0]

\* &CacheBuffer{Buffer: &bytes.Buffer{}}
NewCacheBuffer == [present |-> TRUE, isNil |-> FALSE, Buffer |-> <<>>, Counter |-> 0]

(* ------------------------------ FileQueue ------------------------------ *)
\* NewFileBackend
\* recs: the records of the data file; committed: number of records before the
\* persisted read offset; read: number of records before the end of the last Read
NewFileBackend == [recs |-> <<>>, committed |-> 0, read |-> 0, closed |-> FALSE]

\* FileBackend.IsData: read offset < write offset
IsData(q) == q.committed < Len(q.recs)

\* FileBackend.Write: append one framed record
FbWrite(q, rec) == IF q.closed THEN q ELSE [q EXCEPT !.recs = Append(@, rec)]

\* FileBackend.Read returning the newest record instead of the one at the read offset
FbRead_Newest(q) == IF q.closed \/ ~IsData(q) THEN 0 ELSE Len(q.recs)

\* FileBackend.Read: index of the record at the read offset, 0 when there is none
\* (or the files are closed)
FbRead(q) == IF q.closed \/ ~IsData(q) THEN 0 ELSE q.committed + 1

\* FileBackend.Read: the queue after the call
AfterRead(q) == IF FbRead(q) = 0 THEN q ELSE [q EXCEPT !.read = q.committed + 1]

\* FileBackend.UpdateMeta: advance the persisted read offset past the last Read
UpdateMeta(q) == IF q.closed THEN q ELSE [q EXCEPT !.committed = q.read]

\* FileBackend.RollbackMeta: back to the last committed offset
RollbackMeta(q) == IF q.closed THEN q ELSE [q EXCEPT !.read = q.committed]

(* ------------------------- bytes of a record --------------------------- *)
\* a byte string is a sequence of byte values; text is in ASCII, a line of a
\* batch is the single byte of its id
SP == 32
PLUS == 43
PCT == 37

\* the bytes of the database names of the configuration
DbBytes(db) ==
    CASE db = "db1" -> <<100, 98, 49>>
      [] db = "my db" -> <<109, 121, 32, 100, 98>>
      [] OTHER -> <<>>

\* Compress: gzip framing, the magic bytes 0x1f 0x8b in front of the data
Compress(p) == <<31, 139>> \o p
Decompress(z) == SubSeq(z, 3, Len(z))

\* url.QueryEscape: letters, digits and - . _ ~ stay, ' ' becomes '+', every
\* other byte becomes %XX in upper-case hex
IsUnreserved(c) == c \in (48..57) \cup (65..90) \cup (97..122) \cup {45, 46, 95, 126}
HexDigit(n) == IF n < 10 THEN 48 + n ELSE 55 + n
RECURSIVE QueryEscape(_)
QueryEscape(s) ==
    IF s = <<>> THEN <<>>
    ELSE (IF IsUnreserved(Head(s)) THEN <<Head(s)>>
          ELSE IF Head(s) = SP THEN <<PLUS>>
          ELSE <<PCT, HexDigit(Head(s) \div 16), HexDigit(Head(s) % 16)>>)
         \o QueryEscape(Tail(s))

\* url.QueryUnescape: '+' becomes ' ', %XX becomes the byte, a '%' without two
\* hex digits is an error
IsHex(c) == c \in (48..57) \cup (65..70) \cup (97..102)
UnHex(c) == IF c \in 48..57 THEN c - 48 ELSE IF c \in 97..102 THEN c - 87 ELSE c - 55
\* first pass: every '%' is followed by two hex digits
UnescapeValid(s) ==
    \A i \in 1..Len(s) :
        s[i] = PCT => (i + 2 <= Len(s) /\ IsHex(s[i + 1]) /\ IsHex(s[i + 2]))
\* second pass: the bytes of a valid string
RECURSIVE Unescaped(_)
Unescaped(s) ==
    IF s = <<>> THEN <<>>
    ELSE IF Head(s) = PCT
    THEN <<16 * UnHex(s[2]) + UnHex(s[3])>> \o Unescaped(SubSeq(s, 4, Len(s)))
    ELSE <<IF Head(s) = PLUS THEN SP ELSE Head(s)>> \o Unescaped(Tail(s))
QueryUnescape(s) ==
    IF UnescapeValid(s) THEN [err |-> FALSE, s |-> Unescaped(s)]
    ELSE [err |-> TRUE, s |-> <<>>]

\* the record joined without url.QueryEscape
EncodeRecord_RawDb(db, p) == db \o <<SP>> \o p

\* bytes.Join([][]byte{[]byte(url.QueryEscape(db)), p}, []byte{' '})
EncodeRecord(db, p) == QueryEscape(db) \o <<SP>> \o p

\* bytes.SplitN(b, []byte{' '}, 2): cut at the first ' ', one part when there is none
RECURSIVE IndexSpace(_, _)
IndexSpace(b, i) == IF i > Len(b) THEN 0 ELSE IF b[i] = SP THEN i ELSE IndexSpace(b, i + 1)
FirstSpace(b) == IndexSpace(b, 1)
SplitN(b) ==
    IF FirstSpace(b) = 0 THEN <<b>>
    ELSE <<SubSeq(b, 1, FirstSpace(b) - 1), SubSeq(b, FirstSpace(b) + 1, Len(b))>>

\* Rewrite, from SplitN to the arguments of WriteCompressed: "invalid" when the
\* record has no ' ', "unescape" when QueryUnescape fails
DecodeRecord(b) ==
    IF Len(SplitN(b)) < 2 THEN [err |-> "invalid", db |-> <<>>, p |-> <<>>]
    ELSE IF QueryUnescape(SplitN(b)[1]).err THEN [err |-> "unescape", db |-> <<>>, p |-> <<>>]
    ELSE [err |-> "", db |-> QueryUnescape(SplitN(b)[1]).s, p |-> SplitN(b)[2]]

(* ------------------------------- Init ---------------------------------- *)
InitBackend ==
    /\ workerPc = [b \in Backends |-> IF b \in GenBackends(1) THEN "select" ELSE "none"]
    /\ closing = [b \in Backends |-> FALSE]
    /\ chWrite = [b \in Backends |-> <<>>]
    /\ chClosed = [b \in Backends |-> FALSE]
    /\ chTimer = [b \in Backends |-> 0]
    /\ buffers = [b \in Backends |-> [db \in DBs |-> NoCacheBuffer]]
    /\ toFlush = [b \in Backends |-> {}]
    /\ poolReleased = [b \in Backends |-> FALSE]
    /\ wg = [b \in Backends |-> 0]
    /\ tasks = [b \in Backends |-> {}]
    /\ Active = [b \in Backends |-> TRUE]
    /\ rewriteRunning = [b \in Backends |-> FALSE]
    /\ loops = [b \in Backends |-> [i \in 1..MaxLoops |-> [pc |-> "none", rec |-> 0, db |-> <<>>, p |-> <<>>, res |-> "none"]]]
    /\ fb = [b \in Backends |-> NewFileBackend]
    /\ httpClosed = [b \in Backends |-> FALSE]
    /\ nextId = 0
    /\ handed = [b \in Backends |-> {}]
    /\ delivered = [b \in Backends |-> {}]
    /\ dropped = [b \in Backends |-> {}]
    /\ lost = [b \in Backends |-> {}]
    /\ doneTasks = [b \in Backends |-> {}]

(* ------------------------------ ingress -------------------------------- *)
\* Backend.WritePoint: ib.chWrite <- point (blocks while the channel is full)
WritePointCap(b, point, cap) ==
    /\ Len(chWrite[b]) < cap
    /\ chWrite' = [chWrite EXCEPT ![b] = Append(@, point)]
    /\ handed' = [handed EXCEPT ![b] = @ \cup {point.id}]

\* WritePoint on the channel made by NewBackend
WritePoint(b, point) == WritePointCap(b, point, ChanCap)

\* whether the line with this id ends in '\n' when it reaches WritePoint
HasNewline(id) == id % 2 = 0

\* a caller of WritePoint on the backend under test, for the first n lines
ClientWriteUpTo(b, n) ==
    /\ nextId < n
    /\ ~chClosed[b]
    /\ \E db \in DBs :
          WritePoint(b, [id |-> nextId + 1, db |-> db, nl |-> HasNewline(nextId + 1)])
    /\ nextId' = nextId + 1
    /\ UNCHANGED <<workerPc, closing, chClosed, chTimer, buffers, toFlush, poolReleased,
                   wg, tasks, Active, rewriteRunning, loops, fb, httpClosed,
                   delivered, dropped, lost, doneTasks>>

ClientWrite(b) == ClientWriteUpTo(b, MaxPoints)

\* Backend.Close: ib.pool.Release(); close(ib.chWrite)
Close(b) ==
    /\ workerPc[b] # "none"
    /\ ~chClosed[b]
    /\ poolReleased' = [poolReleased EXCEPT ![b] = TRUE]
    /\ chClosed' = [chClosed EXCEPT ![b] = TRUE]
    /\ UNCHANGED <<workerPc, closing, chWrite, chTimer, buffers, toFlush, wg, tasks,
                   Active, rewriteRunning, loops, fb, httpClosed, nextId, handed,
                   delivered, dropped, lost, doneTasks>>

\* the prober of HttpBackend stores the last ping result in ib.Active
SetActive(b) ==
    /\ workerPc[b] # "none"
    /\ Active' = [Active EXCEPT ![b] = ~@]
    /\ UNCHANGED <<workerPc, closing, chWrite, chClosed, chTimer, buffers, toFlush,
                   poolReleased, wg, tasks, rewriteRunning, loops, fb, httpClosed,
                   nextId, handed, delivered, dropped, lost, doneTasks>>

(* ------------------------------- worker -------------------------------- *)
\* the databases Flush hands to FlushBuffer: ib.buffers[db].Counter > 0
NonEmptyBuffers(b) == {db \in DBs : buffers[b][db].present /\ buffers[b][db].Counter > 0}

\* WriteBuffer whose flush on size also stops the timer
WriteBuffer_SizeFlushDisarms(b) ==
    /\ workerPc[b] = "select"
    /\ chWrite[b] # <<>>
    /\ LET point == Head(chWrite[b])
           db == point.db
           cb0 == IF buffers[b][db].present THEN buffers[b][db] ELSE NewCacheBuffer
           cb1 == [cb0 EXCEPT !.Counter = @ + 1, !.isNil = FALSE]
           line == IF point.nl THEN <<point.id, NL>> ELSE <<point.id>>
           cb2 == [cb1 EXCEPT !.Buffer = @ \o line]
           cb3 == IF line[Len(line)] # NL THEN [cb2 EXCEPT !.Buffer = Append(@, NL)] ELSE cb2
       IN /\ chWrite' = [chWrite EXCEPT ![b] = Tail(@)]
          /\ buffers' = [buffers EXCEPT ![b][db] = cb3]
          /\ IF cb3.Counter >= flushSize
                THEN /\ toFlush' = [toFlush EXCEPT ![b] = {db}]
                     /\ workerPc' = [workerPc EXCEPT ![b] = "flush"]
                     /\ chTimer' = [chTimer EXCEPT ![b] = 0]
                ELSE /\ chTimer' = [chTimer EXCEPT ![b] = IF @ = 0 THEN point.id ELSE @]
                     /\ UNCHANGED <<toFlush, workerPc>>
    /\ UNCHANGED <<closing, chClosed, poolReleased, wg, tasks, Active, rewriteRunning,
                   loops, fb, httpClosed, nextId, handed, delivered, dropped, lost,
                   doneTasks>>

\* WriteBuffer calling time.After also when a timer is armed already
WriteBuffer_AlwaysArm(b) ==
    /\ workerPc[b] = "select"
    /\ chWrite[b] # <<>>
    /\ LET point == Head(chWrite[b])
           db == point.db
           cb0 == IF buffers[b][db].present THEN buffers[b][db] ELSE NewCacheBuffer
           cb1 == [cb0 EXCEPT !.Counter = @ + 1, !.isNil = FALSE]
           line == IF point.nl THEN <<point.id, NL>> ELSE <<point.id>>
           cb2 == [cb1 EXCEPT !.Buffer = @ \o line]
           cb3 == IF line[Len(line)] # NL THEN [cb2 EXCEPT !.Buffer = Append(@, NL)] ELSE cb2
       IN /\ chWrite' = [chWrite EXCEPT ![b] = Tail(@)]
          /\ buffers' = [buffers EXCEPT ![b][db] = cb3]
          /\ IF cb3.Counter >= flushSize
                THEN /\ toFlush' = [toFlush EXCEPT ![b] = {db}]
                     /\ workerPc' = [workerPc EXCEPT ![b] = "flush"]
                     /\ UNCHANGED chTimer
                ELSE /\ chTimer' = [chTimer EXCEPT ![b] = point.id]
                     /\ UNCHANGED <<toFlush, workerPc>>
    /\ UNCHANGED <<closing, chClosed, poolReleased, wg, tasks, Active, rewriteRunning,
                   loops, fb, httpClosed, nextId, handed, delivered, dropped, lost,
                   doneTasks>>

\* WriteBuffer writing '\n' after every line, also after one that ends in '\n'
WriteBuffer_AlwaysNewline(b) ==
    /\ workerPc[b] = "select"
    /\ chWrite[b] # <<>>
    /\ LET point == Head(chWrite[b])
           db == point.db
           cb0 == IF buffers[b][db].present THEN buffers[b][db] ELSE NewCacheBuffer
           cb1 == [cb0 EXCEPT !.Counter = @ + 1, !.isNil = FALSE]
           line == IF point.nl THEN <<point.id, NL>> ELSE <<point.id>>
           cb3 == [cb1 EXCEPT !.Buffer = (@ \o line) \o <<NL>>]
       IN /\ chWrite' = [chWrite EXCEPT ![b] = Tail(@)]
          /\ buffers' = [buffers EXCEPT ![b][db] = cb3]
          /\ IF cb3.Counter >= flushSize
                THEN /\ toFlush' = [toFlush EXCEPT ![b] = {db}]
                     /\ workerPc' = [workerPc EXCEPT ![b] = "flush"]
                     /\ UNCHANGED chTimer
                ELSE /\ chTimer' = [chTimer EXCEPT ![b] = IF @ = 0 THEN point.id ELSE @]
                     /\ UNCHANGED <<toFlush, workerPc>>
    /\ UNCHANGED <<closing, chClosed, poolReleased, wg, tasks, Active, rewriteRunning,
                   loops, fb, httpClosed, nextId, handed, delivered, dropped, lost,
                   doneTasks>>

\* worker, case p, ok := <-ib.chWrite with ok: ib.WriteBuffer(p)
WriteBuffer(b) ==
    /\ workerPc[b] = "select"
    /\ chWrite[b] # <<>>
    /\ LET point == Head(chWrite[b])
           db == point.db
           cb0 == IF buffers[b][db].present THEN buffers[b][db] ELSE NewCacheBuffer
           cb1 == [cb0 EXCEPT !.Counter = @ + 1, !.isNil = FALSE]
           line == IF point.nl THEN <<point.id, NL>> ELSE <<point.id>>
           cb2 == [cb1 EXCEPT !.Buffer = @ \o line]
           cb3 == IF line[Len(line)] # NL THEN [cb2 EXCEPT !.Buffer = Append(@, NL)] ELSE cb2
       IN /\ chWrite' = [chWrite EXCEPT ![b] = Tail(@)]
          /\ buffers' = [buffers EXCEPT ![b][db] = cb3]
          /\ IF cb3.Counter >= flushSize
                THEN /\ toFlush' = [toFlush EXCEPT ![b] = {db}]
                     /\ workerPc' = [workerPc EXCEPT ![b] = "flush"]
                     /\ UNCHANGED chTimer
                ELSE /\ chTimer' = [chTimer EXCEPT ![b] = IF @ = 0 THEN point.id ELSE @]
                     /\ UNCHANGED <<toFlush, workerPc>>
    /\ UNCHANGED <<closing, chClosed, poolReleased, wg, tasks, Active, rewriteRunning,
                   loops, fb, httpClosed, nextId, handed, delivered, dropped, lost,
                   doneTasks>>

\* Flush without ib.chTimer = nil
Flush_KeepTimer(b, isClose) ==
    /\ UNCHANGED chTimer
    /\ toFlush' = [toFlush EXCEPT ![b] = NonEmptyBuffers(b)]
    /\ closing' = [closing EXCEPT ![b] = isClose]
    /\ workerPc' = [workerPc EXCEPT ![b] =
                       IF NonEmptyBuffers(b) # {} THEN "flush"
                       ELSE IF isClose THEN "wait" ELSE "select"]

\* Backend.Flush up to its first FlushBuffer: disarm the timer, range over the buffers
Flush(b, isClose) ==
    /\ chTimer' = [chTimer EXCEPT ![b] = 0]
    /\ toFlush' = [toFlush EXCEPT ![b] = NonEmptyBuffers(b)]
    /\ closing' = [closing EXCEPT ![b] = isClose]
    /\ workerPc' = [workerPc EXCEPT ![b] =
                       IF NonEmptyBuffers(b) # {} THEN "flush"
                       ELSE IF isClose THEN "wait" ELSE "select"]

\* worker, case <-ib.chTimer: ib.Flush()
TimerFlush(b) ==
    /\ workerPc[b] = "select"
    /\ chTimer[b] # 0
    /\ Flush(b, FALSE)
    /\ UNCHANGED <<chWrite, chClosed, buffers, poolReleased, wg, tasks, Active,
                   rewriteRunning, loops, fb, httpClosed, nextId, handed, delivered,
                   dropped, lost, doneTasks>>

\* worker, case p, ok := <-ib.chWrite with !ok: ib.Flush()
WorkerClosed(b) ==
    /\ workerPc[b] = "select"
    /\ chWrite[b] = <<>>
    /\ chClosed[b]
    /\ Flush(b, TRUE)
    /\ UNCHANGED <<chWrite, chClosed, buffers, poolReleased, wg, tasks, Active,
                   rewriteRunning, loops, fb, httpClosed, nextId, handed, delivered,
                   dropped, lost, doneTasks>>

\* ants Pool.Submit: ErrPoolClosed once the pool is released, otherwise
\* the call blocks until one of the size workers of the pool is free
SubmitReturns(b, size) == poolReleased[b] \/ Cardinality(tasks[b]) < size

\* FlushBuffer without cb.Counter = 0
Detached_KeepCounter(cb) == [cb EXCEPT !.isNil = TRUE, !.Buffer = <<>>]

\* cb.Buffer = nil; cb.Counter = 0
Detached(cb) == [cb EXCEPT !.isNil = TRUE, !.Buffer = <<>>, !.Counter = 0]

\* Backend.FlushBuffer(db), called by WriteBuffer or by the loop of Flush, of a
\* Backend whose pool was made by ants.NewPool(size)
FlushBufferOf(b, db, size) ==
    /\ workerPc[b] = "flush"
    /\ db \in toFlush[b]
    /\ LET cb == buffers[b][db]
           p == cb.Buffer
       IN IF cb.isNil
             THEN UNCHANGED <<buffers, wg, tasks, lost>>
             ELSE /\ buffers' = [buffers EXCEPT ![b][db] = Detached(cb)]
                  /\ IF Len(p) = 0
                        THEN UNCHANGED <<wg, tasks, lost>>
                        ELSE /\ SubmitReturns(b, size)
                             /\ wg' = [wg EXCEPT ![b] = @ + 1]
                             /\ IF poolReleased[b]
                                   THEN /\ lost' = [lost EXCEPT ![b] = @ \cup LinesOf(p)]
                                        /\ UNCHANGED tasks
                                   ELSE /\ tasks' = [tasks EXCEPT ![b] = @ \cup
                                              {[db |-> db, p |-> p, pc |-> "start"]}]
                                        /\ UNCHANGED lost
    /\ toFlush' = [toFlush EXCEPT ![b] = @ \ {db}]
    /\ workerPc' = [workerPc EXCEPT ![b] =
                       IF toFlush[b] = {db}
                          THEN (IF closing[b] THEN "wait" ELSE "select")
                          ELSE "flush"]
    /\ UNCHANGED <<closing, chWrite, chClosed, chTimer, poolReleased, Active,
                   rewriteRunning, loops, fb, httpClosed, nextId, handed, delivered,
                   dropped, doneTasks>>

\* FlushBuffer with the pool of ProxyConfig.ConnPoolSize workers
FlushBuffer(b, db) == FlushBufferOf(b, db, connPoolSize)

\* worker, closed branch: ib.wg.Wait(); ib.HttpBackend.Close(); ib.fb.Close(); return
WorkerExit(b) ==
    /\ workerPc[b] = "wait"
    /\ wg[b] = 0
    /\ httpClosed' = [httpClosed EXCEPT ![b] = TRUE]
    /\ fb' = [fb EXCEPT ![b].closed = TRUE]
    /\ workerPc' = [workerPc EXCEPT ![b] = "exited"]
    /\ UNCHANGED <<closing, chWrite, chClosed, chTimer, buffers, toFlush, poolReleased,
                   wg, tasks, Active, rewriteRunning, loops, nextId, handed, delivered,
                   dropped, lost, doneTasks>>

(* ------------------------------ pool task ------------------------------ *)
\* the end of the closure FlushBuffer submits: defer ib.wg.Done()
TaskDone(b, t, sawActive, res, nfile) ==
    /\ tasks' = [tasks EXCEPT ![b] = @ \ {t}]
    /\ wg' = [wg EXCEPT ![b] = @ - 1]
    /\ doneTasks' = [doneTasks EXCEPT ![b] = @ \cup
          {[db |-> t.db, p |-> t.p, sawActive |-> sawActive, res |-> res, nfile |-> nfile]}]

\* the closure of FlushBuffer joining the database name without url.QueryEscape
FlushTaskStart_RawDb(b, t) ==
    /\ t \in tasks[b]
    /\ t.pc = "start"
    /\ IF Active[b]
          THEN /\ tasks' = [tasks EXCEPT ![b] = (@ \ {t}) \cup {[t EXCEPT !.pc = "http"]}]
               /\ UNCHANGED <<wg, doneTasks, fb>>
          ELSE /\ fb' = [fb EXCEPT ![b] = FbWrite(@, DbBytes(t.db) \o <<SP>> \o Compress(t.p))]
               /\ TaskDone(b, t, FALSE, "none", IF fb[b].closed THEN 0 ELSE 1)
    /\ UNCHANGED <<workerPc, closing, chWrite, chClosed, chTimer, buffers, toFlush,
                   poolReleased, Active, rewriteRunning, loops, httpClosed, nextId,
                   handed, delivered, dropped, lost>>

\* the closure of FlushBuffer from its start to the WriteCompressed call
\* (backend active) or to its end (backend inactive: written to the FileQueue)
FlushTaskStart(b, t) ==
    /\ t \in tasks[b]
    /\ t.pc = "start"
    /\ IF Active[b]
          THEN /\ tasks' = [tasks EXCEPT ![b] = (@ \ {t}) \cup {[t EXCEPT !.pc = "http"]}]
               /\ UNCHANGED <<wg, doneTasks, fb>>
          ELSE /\ fb' = [fb EXCEPT ![b] = FbWrite(@, EncodeRecord(DbBytes(t.db), Compress(t.p)))]
               /\ TaskDone(b, t, FALSE, "none", IF fb[b].closed THEN 0 ELSE 1)
    /\ UNCHANGED <<workerPc, closing, chWrite, chClosed, chTimer, buffers, toFlush,
                   poolReleased, Active, rewriteRunning, loops, httpClosed, nextId,
                   handed, delivered, dropped, lost>>

\* the closure of FlushBuffer with `case ErrBadRequest` missing from its switch
FlushTaskResult_NoBadRequestCase(b, t, err) ==
    /\ t \in tasks[b]
    /\ t.pc = "http"
    /\ IF err = "ok"
          THEN /\ delivered' = [delivered EXCEPT ![b] = @ \cup LinesOf(t.p)]
               /\ TaskDone(b, t, TRUE, err, 0)
               /\ UNCHANGED <<dropped, fb>>
          ELSE IF err \in {"NotFound"}
          THEN /\ dropped' = [dropped EXCEPT ![b] = @ \cup LinesOf(t.p)]
               /\ TaskDone(b, t, TRUE, err, 0)
               /\ UNCHANGED <<delivered, fb>>
          ELSE /\ fb' = [fb EXCEPT ![b] = FbWrite(@, EncodeRecord(DbBytes(t.db), Compress(t.p)))]
               /\ TaskDone(b, t, TRUE, err, IF fb[b].closed THEN 0 ELSE 1)
               /\ UNCHANGED <<delivered, dropped>>
    /\ UNCHANGED <<workerPc, closing, chWrite, chClosed, chTimer, buffers, toFlush,
                   poolReleased, Active, rewriteRunning, loops, httpClosed, nextId,
                   handed, lost>>

\* the closure of FlushBuffer from the return of WriteCompressed to its end
FlushTaskResult(b, t, err) ==
    /\ t \in tasks[b]
    /\ t.pc = "http"
    /\ IF err = "ok"
          THEN /\ delivered' = [delivered EXCEPT ![b] = @ \cup LinesOf(t.p)]
               /\ TaskDone(b, t, TRUE, err, 0)
               /\ UNCHANGED <<dropped, fb>>
          ELSE IF err \in {"BadRequest", "NotFound"}
          THEN /\ dropped' = [dropped EXCEPT ![b] = @ \cup LinesOf(t.p)]
               /\ TaskDone(b, t, TRUE, err, 0)
               /\ UNCHANGED <<delivered, fb>>
          ELSE /\ fb' = [fb EXCEPT ![b] = FbWrite(@, EncodeRecord(DbBytes(t.db), Compress(t.p)))]
               /\ TaskDone(b, t, TRUE, err, IF fb[b].closed THEN 0 ELSE 1)
               /\ UNCHANGED <<delivered, dropped>>
    /\ UNCHANGED <<workerPc, closing, chWrite, chClosed, chTimer, buffers, toFlush,
                   poolReleased, Active, rewriteRunning, loops, httpClosed, nextId,
                   handed, lost>>

(* ----------------------------- rewrite loop ---------------------------- *)
\* no goroutine; db and p are the arguments of the WriteCompressed call in
\* progress, res is the result of the last one
NoLoop == [pc |-> "none", rec |-> 0, db |-> <<>>, p |-> <<>>, res |-> "none"]

FreeSlots(b) == {i \in 1..MaxLoops : loops[b][i].pc = "none"}

\* RewriteIdle without the test of ib.rewriteRunning
RewriteIdle_NoRunningTest(b) ==
    /\ workerPc[b] = "select"
    /\ IF IsData(fb[b])
          THEN /\ FreeSlots(b) # {}
               /\ rewriteRunning' = [rewriteRunning EXCEPT ![b] = TRUE]
               /\ LET i == CHOOSE j \in FreeSlots(b) : \A k \in FreeSlots(b) : j <= k
                  IN loops' = [loops EXCEPT ![b][i] = [NoLoop EXCEPT !.pc = "check"]]
          ELSE UNCHANGED <<rewriteRunning, loops>>
    /\ UNCHANGED <<workerPc, closing, chWrite, chClosed, chTimer, buffers, toFlush,
                   poolReleased, wg, tasks, Active, fb, httpClosed, nextId, handed,
                   delivered, dropped, lost, doneTasks>>

\* worker, case <-ib.rewriteTicker.C: ib.RewriteIdle()
RewriteIdle(b) ==
    /\ workerPc[b] = "select"
    /\ IF ~rewriteRunning[b] /\ IsData(fb[b])
          THEN /\ FreeSlots(b) # {}
               /\ rewriteRunning' = [rewriteRunning EXCEPT ![b] = TRUE]
               /\ LET i == CHOOSE j \in FreeSlots(b) : \A k \in FreeSlots(b) : j <= k
                  IN loops' = [loops EXCEPT ![b][i] = [NoLoop EXCEPT !.pc = "check"]]
          ELSE UNCHANGED <<rewriteRunning, loops>>
    /\ UNCHANGED <<workerPc, closing, chWrite, chClosed, chTimer, buffers, toFlush,
                   poolReleased, wg, tasks, Active, fb, httpClosed, nextId, handed,
                   delivered, dropped, lost, doneTasks>>

\* RewriteLoop: the loop condition, the Active test and Rewrite up to its
\* WriteCompressed call; after the loop, ib.rewriteRunning = false
RewriteLoop(b, i) ==
    /\ loops[b][i].pc = "check"
    /\ IF ~IsData(fb[b])
          THEN /\ rewriteRunning' = [rewriteRunning EXCEPT ![b] = FALSE]
               /\ loops' = [loops EXCEPT ![b][i] = NoLoop]
               /\ UNCHANGED fb
          ELSE /\ UNCHANGED rewriteRunning
               /\ IF ~Active[b]
                     THEN /\ loops' = [loops EXCEPT ![b][i] = [NoLoop EXCEPT !.pc = "sleep"]]
                          /\ UNCHANGED fb
                     ELSE /\ fb' = [fb EXCEPT ![b] = AfterRead(@)]
                          /\ IF FbRead(fb[b]) = 0
                             THEN loops' = [loops EXCEPT ![b][i] = [NoLoop EXCEPT !.pc = "sleep"]]
                             ELSE IF DecodeRecord(fb[b].recs[FbRead(fb[b])]).err = "invalid"
                             THEN loops' = [loops EXCEPT ![b][i] = [NoLoop EXCEPT !.pc = "check"]]
                             ELSE IF DecodeRecord(fb[b].recs[FbRead(fb[b])]).err = "unescape"
                             THEN loops' = [loops EXCEPT ![b][i] = [NoLoop EXCEPT !.pc = "sleep"]]
                             ELSE loops' = [loops EXCEPT ![b][i] =
                                      [pc |-> "http", rec |-> FbRead(fb[b]),
                                       db |-> DecodeRecord(fb[b].recs[FbRead(fb[b])]).db,
                                       p |-> DecodeRecord(fb[b].recs[FbRead(fb[b])]).p,
                                       res |-> "none"]]
    /\ UNCHANGED <<workerPc, closing, chWrite, chClosed, chTimer, buffers, toFlush,
                   poolReleased, wg, tasks, Active, httpClosed, nextId, handed,
                   delivered, dropped, lost, doneTasks>>

\* Rewrite without the UpdateMeta call after a terminal result
Rewrite_NoUpdateMeta(b, i, err) ==
    /\ loops[b][i].pc = "http"
    /\ LET rec == loops[b][i]
       IN IF err \in {"ok", "BadRequest", "NotFound"}
                THEN /\ UNCHANGED fb
                     /\ loops' = [loops EXCEPT ![b][i] = [NoLoop EXCEPT !.pc = "check", !.res = err]]
                     /\ IF err = "ok"
                           THEN /\ delivered' = [delivered EXCEPT ![b] = @ \cup LinesOf(Decompress(rec.p))]
                                /\ UNCHANGED dropped
                           ELSE /\ dropped' = [dropped EXCEPT ![b] = @ \cup LinesOf(Decompress(rec.p))]
                                /\ UNCHANGED delivered
                ELSE /\ fb' = [fb EXCEPT ![b] = RollbackMeta(@)]
                     /\ loops' = [loops EXCEPT ![b][i] = [NoLoop EXCEPT !.pc = "sleep", !.res = err]]
                     /\ UNCHANGED <<delivered, dropped>>
    /\ UNCHANGED <<workerPc, closing, chWrite, chClosed, chTimer, buffers, toFlush,
                   poolReleased, wg, tasks, Active, rewriteRunning, httpClosed, nextId,
                   handed, lost, doneTasks>>

\* Rewrite without the RollbackMeta call after a Transient result
Rewrite_NoRollbackMeta(b, i, err) ==
    /\ loops[b][i].pc = "http"
    /\ LET rec == loops[b][i]
       IN IF err \in {"ok", "BadRequest", "NotFound"}
                THEN /\ fb' = [fb EXCEPT ![b] = UpdateMeta(@)]
                     /\ loops' = [loops EXCEPT ![b][i] = [NoLoop EXCEPT !.pc = "check", !.res = err]]
                     /\ IF err = "ok"
                           THEN /\ delivered' = [delivered EXCEPT ![b] = @ \cup LinesOf(Decompress(rec.p))]
                                /\ UNCHANGED dropped
                           ELSE /\ dropped' = [dropped EXCEPT ![b] = @ \cup LinesOf(Decompress(rec.p))]
                                /\ UNCHANGED delivered
                ELSE /\ UNCHANGED fb
                     /\ loops' = [loops EXCEPT ![b][i] = [NoLoop EXCEPT !.pc = "sleep", !.res = err]]
                     /\ UNCHANGED <<delivered, dropped>>
    /\ UNCHANGED <<workerPc, closing, chWrite, chClosed, chTimer, buffers, toFlush,
                   poolReleased, wg, tasks, Active, rewriteRunning, httpClosed, nextId,
                   handed, lost, doneTasks>>

\* Rewrite from the return of WriteCompressed: UpdateMeta or RollbackMeta
Rewrite(b, i, err) ==
    /\ loops[b][i].pc = "http"
    /\ LET rec == loops[b][i]
       IN IF err \in {"ok", "BadRequest", "NotFound"}
                THEN /\ fb' = [fb EXCEPT ![b] = UpdateMeta(@)]
                     /\ loops' = [loops EXCEPT ![b][i] = [NoLoop EXCEPT !.pc = "check", !.res = err]]
                     /\ IF err = "ok"
                           THEN /\ delivered' = [delivered EXCEPT ![b] = @ \cup LinesOf(Decompress(rec.p))]
                                /\ UNCHANGED dropped
                           ELSE /\ dropped' = [dropped EXCEPT ![b] = @ \cup LinesOf(Decompress(rec.p))]
                                /\ UNCHANGED delivered
                ELSE /\ fb' = [fb EXCEPT ![b] = RollbackMeta(@)]
                     /\ loops' = [loops EXCEPT ![b][i] = [NoLoop EXCEPT !.pc = "sleep", !.res = err]]
                     /\ UNCHANGED <<delivered, dropped>>
    /\ UNCHANGED <<workerPc, closing, chWrite, chClosed, chTimer, buffers, toFlush,
                   poolReleased, wg, tasks, Active, rewriteRunning, httpClosed, nextId,
                   handed, lost, doneTasks>>

\* RewriteLoop: time.Sleep(rewriteInterval) is over, continue
RewriteWake(b, i) ==
    /\ loops[b][i].pc = "sleep"
    /\ loops' = [loops EXCEPT ![b][i] = [NoLoop EXCEPT !.pc = "check"]]
    /\ UNCHANGED <<workerPc, closing, chWrite, chClosed, chTimer, buffers, toFlush,
                   poolReleased, wg, tasks, Active, rewriteRunning, fb, httpClosed,
                   nextId, handed, delivered, dropped, lost, doneTasks>>


(* ===================== admission of transfer operators ================= *)
\* circle ids of the configuration; formCircleId rejects every other value
CircleIds == {0, 1}
InvalidCircleId == 2
Operators == {"rebalance", "recovery", "resync", "cleanup"}
\* form value "worker": absent, a positive integer, not a positive integer
WorkerForms == {"", "7", "x"}

NoReq == [pc |-> "idle", kind |-> "", c1 |-> 0, c2 |-> 0, status |-> 0, why |-> ""]
NoJob == [pc |-> "none", kind |-> "", c1 |-> 0, c2 |-> 0]

InitAdmin ==
    /\ transferring = [c \in CircleIds |-> FALSE]
    /\ resyncing = FALSE
    /\ txWorker = DefaultWorker
    /\ txBatch = DefaultBatch
    /\ txLimit = DefaultLimit
    /\ txHaAddrs = <<>>
    /\ req = [r \in 1..MaxReqs |-> NoReq]
    /\ jobs = [j \in 1..MaxJobs |-> NoJob]

\* the circles an operator works on
JobCircles(kind, c1, c2) ==
    CASE kind = "rebalance" -> {c1}
      [] kind = "cleanup"   -> {c1}
      [] kind = "recovery"  -> {c1, c2}
      [] OTHER              -> {}

\* the handler has answered: status and message of the response
Respond(r, status, why) ==
    req' = [req EXCEPT ![r] = [NoReq EXCEPT !.pc = "done", !.status = status, !.why = why]]

\* HandlerRebalance / HandlerRecovery / HandlerResync / HandlerCleanup up to the
\* test of Transferring: formCircleId, from_circle_id = to_circle_id
HandlerArrive(r) ==
    /\ req[r].pc \in {"idle", "done"}
    /\ \E kind \in Operators, c1 \in CircleIds \cup {InvalidCircleId},
          c2 \in CircleIds \cup {InvalidCircleId} :
          /\ kind \in {"rebalance", "cleanup", "resync"} => c2 = 0
          /\ kind = "resync" => c1 = 0
          /\ IF kind # "resync" /\ (c1 \notin CircleIds \/ c2 \notin CircleIds)
                THEN Respond(r, 400, "circle_id")
             ELSE IF kind = "recovery" /\ c1 = c2
                THEN Respond(r, 400, "same")
             ELSE req' = [req EXCEPT ![r] = [NoReq EXCEPT !.pc = "checkTransferring",
                                               !.kind = kind, !.c1 = c1, !.c2 = c2]]
    /\ UNCHANGED <<transferring, resyncing, txWorker, txBatch, txLimit, txHaAddrs, jobs>>

\* HandlerRebalance: hs.tx.CircleState(circleId).Transferring
RebalanceTransferring(r) == transferring[req[r].c1]

\* HandlerRecovery with the test of the destination circle left out
RecoveryTransferring_FromOnly(r) == transferring[req[r].c1]

\* HandlerRecovery: CircleState(fromCircleId).Transferring || CircleState(toCircleId).Transferring
RecoveryTransferring(r) == transferring[req[r].c1] \/ transferring[req[r].c2]

\* HandlerResync: for _, cs := range hs.tx.CircleStates() { if cs.Transferring
ResyncTransferring(r) == \E c \in CircleIds : transferring[c]

\* HandlerCleanup: hs.tx.CircleState(circleId).Transferring
CleanupTransferring(r) == transferring[req[r].c1]

\* the test of Transferring in the four handlers: 400 "circle is transferring"
HandlerCheckTransferring(r) ==
    /\ req[r].pc = "checkTransferring"
    /\ LET refused == CASE req[r].kind = "rebalance" -> RebalanceTransferring(r)
                        [] req[r].kind = "recovery"  -> RecoveryTransferring(r)
                        [] req[r].kind = "resync"    -> ResyncTransferring(r)
                        [] req[r].kind = "cleanup"   -> CleanupTransferring(r)
       IN IF refused
             THEN Respond(r, 400, "transferring")
             ELSE req' = [req EXCEPT ![r].pc = "checkResyncing"]
    /\ UNCHANGED <<transferring, resyncing, txWorker, txBatch, txLimit, txHaAddrs, jobs>>

\* the test of hs.tx.Resyncing in the four handlers: 400 "proxy is resyncing"
HandlerCheckResyncing(r) ==
    /\ req[r].pc = "checkResyncing"
    /\ IF resyncing
          THEN Respond(r, 400, "resyncing")
          ELSE req' = [req EXCEPT ![r].pc = "setParam"]
    /\ UNCHANGED <<transferring, resyncing, txWorker, txBatch, txLimit, txHaAddrs, jobs>>


\* form values "batch" and "limit": absent, a positive integer, other
BatchForms == {"", "9", "x"}
LimitForms == {"", "5", "x"}
\* form values "ha_addrs": none, a single address, two addresses that match
\* `^[\w-.]+:\d{1,5}$`, two addresses of which one does not match
HaForms == {<<>>, <<"h1:8086">>, <<"h1:8086", "h2:8086">>, <<"h1:8086", "h2">>}
MatchHaAddr(addr) == addr \in {"h1:8086", "h2:8086"}

\* the form values of a request that setParam reads
ParamForms == [worker : WorkerForms, batch : BatchForms, limit : LimitForms, ha : HaForms]
\* requests that name at most a worker
WorkerOnlyForms == {f \in ParamForms : f.batch = "" /\ f.limit = "" /\ f.ha = <<>>}

\* the parameters held by hs.tx
TxParam == [worker |-> txWorker, batch |-> txBatch, limit |-> txLimit, ha |-> txHaAddrs]

\* setWorker, setBatch, setLimit: strconv.Atoi of the trimmed form value
Atoi(str) == CASE str = "5" -> 5 [] str = "7" -> 7 [] str = "9" -> 9 [] OTHER -> 0

\* setHaAddrs: more than one address and all match -> written; one address or
\* a mismatch -> ErrInvalidHaAddrs; none -> hs.tx.HaAddrs is left as it is
setHaAddrs(tx, f) ==
    IF Len(f.ha) > 1
       THEN IF \A i \in 1..Len(f.ha) : MatchHaAddr(f.ha[i])
               THEN [err |-> "", tx |-> [tx EXCEPT !.ha = f.ha]]
               ELSE [err |-> "ha_addrs", tx |-> tx]
       ELSE IF Len(f.ha) = 1
               THEN [err |-> "ha_addrs", tx |-> tx]
               ELSE [err |-> "", tx |-> tx]

\* setLimit, then setHaAddrs
setLimit(tx, f) ==
    IF f.limit = ""
       THEN setHaAddrs([tx EXCEPT !.limit = DefaultLimit], f)
       ELSE IF Atoi(f.limit) <= 0
               THEN [err |-> "limit", tx |-> tx]
               ELSE setHaAddrs([tx EXCEPT !.limit = Atoi(f.limit)], f)

\* setBatch, then setLimit
setBatch(tx, f) ==
    IF f.batch = ""
       THEN setLimit([tx EXCEPT !.batch = DefaultBatch], f)
       ELSE IF Atoi(f.batch) <= 0
               THEN [err |-> "batch", tx |-> tx]
               ELSE setLimit([tx EXCEPT !.batch = Atoi(f.batch)], f)

\* setParam: setWorker, setBatch, setLimit, setHaAddrs in this order, each
\* writing its field of hs.tx; the first error ends it, the fields written
\* before stay written
setParam(tx, f) ==
    IF f.worker = ""
       THEN setBatch([tx EXCEPT !.worker = DefaultWorker], f)
       ELSE IF Atoi(f.worker) <= 0
               THEN [err |-> "worker", tx |-> tx]
               ELSE setBatch([tx EXCEPT !.worker = Atoi(f.worker)], f)

FreeJobs == {j \in 1..MaxJobs : jobs[j].pc = "none"}

\* the rest of the four handlers for a request with form values f:
\* hs.setParam(req), then 400 on its error, else `go hs.tx.<Operator>(...)` and
\* 202 "accepted"
SetParamAndGo(r, f) ==
    /\ req[r].pc = "setParam"
    /\ LET res == setParam(TxParam, f)
       IN /\ txWorker' = res.tx.worker
          /\ txBatch' = res.tx.batch
          /\ txLimit' = res.tx.limit
          /\ txHaAddrs' = res.tx.ha
          /\ IF res.err # ""
                THEN /\ Respond(r, 400, res.err)
                     /\ UNCHANGED jobs
                ELSE /\ FreeJobs # {}
                     /\ LET j == CHOOSE k \in FreeJobs : \A l \in FreeJobs : k <= l
                        IN jobs' = [jobs EXCEPT ![j] =
                                      [pc |-> "spawned", kind |-> req[r].kind,
                                       c1 |-> req[r].c1, c2 |-> req[r].c2]]
                     /\ Respond(r, 202, "accepted")
    /\ UNCHANGED <<transferring, resyncing>>

\* a request that names at most the worker parameter
HandlerAdmit(r) == \E f \in WorkerOnlyForms : SetParamAndGo(r, f)

\* a request with any of the parameters
HandlerSetParam(r) == \E f \in ParamForms : SetParamAndGo(r, f)

\* transfer.Rebalance / Recovery / Resync / Cleanup: the operator marks its
\* circles transferring (resync: the proxy resyncing) when it starts
JobBegin(j) ==
    /\ jobs[j].pc = "spawned"
    /\ jobs' = [jobs EXCEPT ![j].pc = "running"]
    /\ IF jobs[j].kind = "resync"
          THEN /\ resyncing' = TRUE
               /\ UNCHANGED transferring
          ELSE /\ transferring' = [c \in CircleIds |->
                     IF c \in JobCircles(jobs[j].kind, jobs[j].c1, jobs[j].c2)
                        THEN TRUE ELSE transferring[c]]
               /\ UNCHANGED resyncing
    /\ UNCHANGED <<txWorker, txBatch, txLimit, txHaAddrs, req>>

\* the operator is done: it resets the flag and its goroutine ends
JobEnd(j) ==
    /\ jobs[j].pc = "running"
    /\ jobs' = [jobs EXCEPT ![j] = NoJob]
    /\ IF jobs[j].kind = "resync"
          THEN /\ resyncing' = FALSE
               /\ UNCHANGED transferring
          ELSE /\ transferring' = [c \in CircleIds |->
                     IF c \in JobCircles(jobs[j].kind, jobs[j].c1, jobs[j].c2)
                        THEN FALSE ELSE transferring[c]]
               /\ UNCHANGED resyncing
    /\ UNCHANGED <<txWorker, txBatch, txLimit, txHaAddrs, req>>

AdminStep ==
    \/ \E r \in 1..MaxReqs : HandlerArrive(r)
    \/ \E r \in 1..MaxReqs : HandlerCheckTransferring(r)
    \/ \E r \in 1..MaxReqs : HandlerCheckResyncing(r)
    \/ \E r \in 1..MaxReqs : HandlerAdmit(r)
    \/ \E j \in 1..MaxJobs : JobBegin(j)
    \/ \E j \in 1..MaxJobs : JobEnd(j)

\* the handlers with every form of the parameters, one request at a time
ParamStep ==
    \/ HandlerArrive(1)
    \/ HandlerCheckTransferring(1)
    \/ HandlerCheckResyncing(1)
    \/ HandlerSetParam(1)
    \/ \E j \in 1..MaxJobs : JobBegin(j)
    \/ \E j \in 1..MaxJobs : JobEnd(j)

NextAdmin == AdminStep /\ UNCHANGED <<backendVars, proxyVars, fnVars>>
NextParam == ParamStep /\ UNCHANGED <<backendVars, proxyVars, fnVars>>


(* ============ admission in the handlers of service/http.go ============= *)
\* form value "cpus": absent, a positive integer up to runtime.NumCPU(), other
CpusForms == {"", "2", "x"}

\* HandlerRebalance / HandlerRecovery / HandlerResync / HandlerClear of
\* service/http.go up to the test of IsMigrating: formCircleId,
\* from_circle_id = to_circle_id, then setCpus, which writes hs.MigrateCpus
\* (txWorker) before any test of the flags
ServiceArrive(r) ==
    /\ req[r].pc \in {"idle", "done"}
    /\ \E kind \in Operators, c1 \in CircleIds \cup {InvalidCircleId},
          c2 \in CircleIds \cup {InvalidCircleId} :
          /\ kind \in {"rebalance", "cleanup", "resync"} => c2 = 0
          /\ kind = "resync" => c1 = 0
          /\ IF kind # "resync" /\ (c1 \notin CircleIds \/ c2 \notin CircleIds)
                THEN Respond(r, 400, "circle_id") /\ UNCHANGED txWorker
             ELSE IF kind = "recovery" /\ c1 = c2
                THEN Respond(r, 400, "same") /\ UNCHANGED txWorker
             ELSE \E cpus \in CpusForms :
                    IF cpus = "x"
                       THEN Respond(r, 400, "cpus") /\ UNCHANGED txWorker
                       ELSE /\ txWorker' = (IF cpus = "" THEN 1 ELSE 2)
                            /\ req' = [req EXCEPT ![r] =
                                  [NoReq EXCEPT !.pc = "checkTransferring",
                                                !.kind = kind, !.c1 = c1, !.c2 = c2]]
    /\ UNCHANGED <<transferring, resyncing, txBatch, txLimit, txHaAddrs, jobs>>

\* the test of IsMigrating in the four handlers of service/http.go: the
\* refusal is written with status 202, "circle %d is migrating"
ServiceCheckMigrating(r) ==
    /\ req[r].pc = "checkTransferring"
    /\ LET refused == CASE req[r].kind = "rebalance" -> RebalanceTransferring(r)
                        [] req[r].kind = "recovery"  -> RecoveryTransferring(r)
                        [] req[r].kind = "resync"    -> ResyncTransferring(r)
                        [] req[r].kind = "cleanup"   -> CleanupTransferring(r)
       IN IF refused
             THEN Respond(r, 202, "migrating")
             ELSE req' = [req EXCEPT ![r].pc = "checkResyncing"]
    /\ UNCHANGED <<transferring, resyncing, txWorker, txBatch, txLimit, txHaAddrs, jobs>>

\* the test of hs.IsResyncing, refusal with status 202 "proxy is resyncing",
\* else `go hs.<Operator>(...)` and 202 "accepted"
ServiceAdmit(r) ==
    /\ req[r].pc = "checkResyncing"
    /\ IF resyncing
          THEN Respond(r, 202, "resyncing") /\ UNCHANGED jobs
          ELSE /\ FreeJobs # {}
               /\ LET j == CHOOSE k \in FreeJobs : \A l \in FreeJobs : k <= l
                  IN jobs' = [jobs EXCEPT ![j] = [pc |-> "spawned", kind |-> req[r].kind,
                                                    c1 |-> req[r].c1, c2 |-> req[r].c2]]
               /\ Respond(r, 202, "accepted")
    /\ UNCHANGED <<transferring, resyncing, txWorker, txBatch, txLimit, txHaAddrs>>

ServiceStep ==
    \/ \E r \in 1..MaxReqs : ServiceArrive(r)
    \/ \E r \in 1..MaxReqs : ServiceCheckMigrating(r)
    \/ \E r \in 1..MaxReqs : ServiceAdmit(r)
    \/ \E j \in 1..MaxJobs : JobBegin(j)
    \/ \E j \in 1..MaxJobs : JobEnd(j)

NextService == ServiceStep /\ UNCHANGED <<backendVars, proxyVars, fnVars>>

(* ======================= Proxy: write fan-out, reload ================== *)
\* virtual nodes per backend and size of the hash space of the ring
VirtualNodes == 2
HashSpace == 8

\* hash of a key on the ring
KeyHash(key) ==
    CASE key = "db1,cpu" -> 1
      [] key = "db1,mem" -> 4
      [] key = "my db,cpu" -> 6
      [] key = "my db,mem" -> 3
      [] OTHER -> 0

\* the ring of a circle: (hash, backend) for every virtual node url#i
Ring(bs) == {<<(2 * (k - 1) + 4 * i) % HashSpace, bs[k]>> :
                k \in 1..Len(bs), i \in 0..(VirtualNodes - 1)}

\* Circle.GetBackend: the first ring pair with hash >= hash of the key, wrapping
GetBackend(bs, key) ==
    LET ring == Ring(bs)
        after == {n \in ring : n[1] >= KeyHash(key)}
        from == IF after # {} THEN after ELSE ring
        node == CHOOSE n \in from : \A o \in from : n[1] <= o[1]
    IN node[2]

\* GetKey: db, ",", meas written to a strings.Builder
GetKey(db, meas) == db \o "," \o meas

\* Proxy.GetBackends with the loop stopping before the last circle
GetBackends_SkipLast(key) ==
    LET cs == Generations[circles]
    IN [i \in 1..(Len(cs) - 1) |-> GetBackend(cs[i], key)]

\* Proxy.GetBackends: circles := ip.Circles(); backends[i] = circle.GetBackend(key)
GetBackends(key) ==
    LET cs == Generations[circles]
    IN [i \in 1..Len(cs) |-> GetBackend(cs[i], key)]

\* database names of requests and of DBList entries
RequestDbs == {"", "_internal", "db1", "my db"}
ListedDbs == {"_internal", "db1", "my db"}

\* newDBSet: a util.Set (map name -> true) with every entry of cfg.DBList
newDBSet(list) == [db \in {list[i] : i \in 1..Len(list)} |-> TRUE]

\* IsForbiddenDB without the test for "_internal"
IsForbiddenDB_NoInternal(db, dbSet) ==
    Cardinality(DOMAIN dbSet) > 0 /\ ~(IF db \in DOMAIN dbSet THEN dbSet[db] ELSE FALSE)

\* Proxy.IsForbiddenDB: db == "_internal" || (len(ip.dbSet) > 0 && !ip.dbSet[db])
IsForbiddenDB(db, dbSet) ==
    \/ db = "_internal"
    \/ (Cardinality(DOMAIN dbSet) > 0 /\ ~(IF db \in DOMAIN dbSet THEN dbSet[db] ELSE FALSE))

NoLine == [db |-> "", meas |-> "", gen |-> 0, returned |-> FALSE]
\* no request: auth, prec, db, reqBody are the fields of the request being
\* checked; body is the line forms Write has read so far, lines the well-formed
\* ones; status and why are the answer of the last request; rlock says that
\* the goroutine of the request holds ip.lock in read mode
IdleWriter == [pc |-> "idle", auth |-> "", prec |-> "", db |-> "", reqBody |-> "",
               body |-> <<>>, line |-> 0, backends |-> <<>>, idx |-> 0, lines |-> {},
               status |-> 0, why |-> "", rlock |-> FALSE]

InitProxy ==
    /\ circles = 1
    /\ writer = IdleWriter
    /\ reload = [pc |-> "idle", toClose |-> <<>>]
    /\ lineInfo = [l \in 1..MaxLines |-> NoLine]
    /\ calls = [l \in 1..MaxLines |-> <<>>]
    /\ accepted = {}

\* no function call under way
NoCall == [fn |-> "none"]

\* hs.cfg after NewHttpService: the circles and DBList of the first generation
\* and the listener the process was started with
InitCfg == [gen |-> 1, listen_addr |-> ":7076", idle_timeout |-> 10, https_enabled |-> FALSE]

Init == InitBackend /\ InitAdmin /\ InitProxy /\ fnCall = NoCall /\ hsCfg = InitCfg

\* what a line of the payload looks like to Write and WriteRow
LineForms == {"ok", "blank", "noKey", "badFormat"}
\* number of lines of a payload
MaxBodyLines == 2

\* ProxyConfig.DBList of each generation: everything allowed, then only db1
GenDBList == << <<>>, <<"db1">> >>

\* the fields of a /write request: method and credentials, precision, db, body
AuthForms == {"ok", "badMethod", "badAuth"}
Precisions == {"", "n", "ns", "u", "ms", "s", "m", "h", "x"}
BodyForms == {"readable", "badGzip", "unreadable"}
WriteRequests == [auth : AuthForms, prec : Precisions, db : RequestDbs, reqBody : BodyForms]
\* the requests of a client that writes to the configured databases
ValidWrites == [auth : {"ok"}, prec : {""}, db : DBs, reqBody : {"readable"}]

\* HandlerWrite: the precisions of `case "", "n", "ns", "u", "ms", "s", "m", "h"`
ValidPrecisions == {"", "n", "ns", "u", "ms", "s", "m", "h"}

\* a /write request arrives
HandlerWrite(rq) ==
    /\ writer.pc \in {"idle", "panicked"}
    /\ writer' = [IdleWriter EXCEPT !.pc = "arrived", !.auth = rq.auth, !.prec = rq.prec,
                                    !.db = rq.db, !.reqBody = rq.reqBody]
    /\ UNCHANGED <<circles, reload, lineInfo, calls, accepted, nextId>>
    /\ UNCHANGED <<workerPc, closing, chWrite, chClosed, chTimer, buffers, toFlush,
                   poolReleased, wg, tasks, Active, rewriteRunning, loops, fb, httpClosed,
                   handed, delivered, dropped, lost, doneTasks>>

\* HandlerWrite with queryDB not asking IsForbiddenDB
WriteRefusal_NoForbiddenTest(w) ==
    IF w.auth = "badMethod" THEN [status |-> 405, why |-> "method"]
    ELSE IF w.auth = "badAuth" THEN [status |-> 401, why |-> "auth"]
    ELSE IF w.prec \notin ValidPrecisions THEN [status |-> 400, why |-> "precision"]
    ELSE IF w.db = "" THEN [status |-> 400, why |-> "database not found"]
    ELSE IF w.reqBody = "badGzip" THEN [status |-> 400, why |-> "gzip"]
    ELSE IF w.reqBody = "unreadable" THEN [status |-> 400, why |-> "body"]
    ELSE [status |-> 0, why |-> ""]

\* the answer of HandlerWrite before Proxy.Write is called, 0 when it is called:
\* checkMethodAndAuth, the precision switch, queryDB, gzip.NewReader, ioutil.ReadAll
WriteRefusal(w) ==
    IF w.auth = "badMethod" THEN [status |-> 405, why |-> "method"]
    ELSE IF w.auth = "badAuth" THEN [status |-> 401, why |-> "auth"]
    ELSE IF w.prec \notin ValidPrecisions THEN [status |-> 400, why |-> "precision"]
    ELSE IF w.db = "" THEN [status |-> 400, why |-> "database not found"]
    ELSE IF IsForbiddenDB(w.db, newDBSet(GenDBList[circles]))
    THEN [status |-> 400, why |-> "database forbidden"]
    ELSE IF w.reqBody = "badGzip" THEN [status |-> 400, why |-> "gzip"]
    ELSE IF w.reqBody = "unreadable" THEN [status |-> 400, why |-> "body"]
    ELSE [status |-> 0, why |-> ""]

\* HandlerWrite up to hs.ip.Write(p, db, rp, precision), or to its WriteError
HandlerWriteCheck ==
    /\ writer.pc = "arrived"
    /\ writer' = IF WriteRefusal(writer).status # 0
                    THEN [IdleWriter EXCEPT !.status = WriteRefusal(writer).status,
                                            !.why = WriteRefusal(writer).why]
                    ELSE [IdleWriter EXCEPT !.pc = "loop", !.db = writer.db]
    /\ UNCHANGED <<circles, reload, lineInfo, calls, accepted, nextId>>
    /\ UNCHANGED <<workerPc, closing, chWrite, chClosed, chTimer, buffers, toFlush,
                   poolReleased, wg, tasks, Active, rewriteRunning, loops, fb, httpClosed,
                   handed, delivered, dropped, lost, doneTasks>>

\* Proxy.Write returning an error at the first line WriteRow does not fan out
WriteRow_ErrorOnBadLine(forms) ==
    /\ writer.pc = "loop"
    /\ Len(writer.body) < MaxBodyLines
    /\ \E form \in forms, meas \in Measurements :
          IF form # "ok"
             THEN /\ writer' = [IdleWriter EXCEPT !.db = writer.db, !.lines = writer.lines,
                                                 !.body = Append(writer.body, form),
                                                 !.status = 500, !.why = "write"]
                  /\ UNCHANGED <<lineInfo, nextId>>
             ELSE LET key == GetKey(writer.db, meas)
                      backends == GetBackends(key)
                      l == nextId + 1
                  IN /\ nextId < MaxLines
                     /\ nextId' = l
                     /\ lineInfo' = [lineInfo EXCEPT ![l] =
                           [db |-> writer.db, meas |-> meas, gen |-> circles,
                            returned |-> Len(backends) = 0]]
                     /\ writer' = [writer EXCEPT !.pc = "fanout", !.line = l,
                                              !.backends = backends, !.idx = 1,
                                              !.lines = @ \cup {l},
                                              !.body = Append(@, form)]
    /\ UNCHANGED <<circles, reload, calls, accepted>>
    /\ UNCHANGED <<workerPc, closing, chWrite, chClosed, chTimer, buffers, toFlush,
                   poolReleased, wg, tasks, Active, rewriteRunning, loops, fb, httpClosed,
                   handed, delivered, dropped, lost, doneTasks>>

\* WriteRow keeping the read lock of ip.Circles() while it fans the line out
WriteRow_HoldsRLock(forms) ==
    /\ writer.pc = "loop"
    /\ Len(writer.body) < MaxBodyLines
    /\ \E form \in forms, meas \in Measurements :
          IF form # "ok"
             THEN /\ writer' = [writer EXCEPT !.body = Append(@, form)]
                  /\ UNCHANGED <<lineInfo, nextId>>
             ELSE LET key == GetKey(writer.db, meas)
                      backends == GetBackends(key)
                      l == nextId + 1
                  IN /\ nextId < MaxLines
                     /\ nextId' = l
                     /\ lineInfo' = [lineInfo EXCEPT ![l] =
                           [db |-> writer.db, meas |-> meas, gen |-> circles,
                            returned |-> Len(backends) = 0]]
                     /\ writer' = IF Len(backends) = 0
                                     THEN [writer EXCEPT !.body = Append(@, form)]
                                     ELSE [writer EXCEPT !.pc = "fanout", !.line = l,
                                              !.backends = backends, !.idx = 1,
                                              !.lines = @ \cup {l},
                                              !.body = Append(@, form)]
    /\ UNCHANGED <<circles, reload, calls, accepted>>
    /\ UNCHANGED <<workerPc, closing, chWrite, chClosed, chTimer, buffers, toFlush,
                   poolReleased, wg, tasks, Active, rewriteRunning, loops, fb, httpClosed,
                   handed, delivered, dropped, lost, doneTasks>>

\* Proxy.Write, one iteration: the next line has one of the forms; a blank line
\* is skipped, WriteRow returns on a ScanKey error or a failed RapidCheck, and
\* otherwise runs up to its fan-out loop: GetKey, GetBackends, whose call of
\* ip.Circles() returns the slice with the read lock released
WriteRow(forms) ==
    /\ writer.pc = "loop"
    /\ Len(writer.body) < MaxBodyLines
    /\ \E form \in forms, meas \in Measurements :
          IF form # "ok"
             THEN /\ writer' = [writer EXCEPT !.body = Append(@, form)]
                  /\ UNCHANGED <<lineInfo, nextId>>
             ELSE LET key == GetKey(writer.db, meas)
                      backends == GetBackends(key)
                      l == nextId + 1
                  IN /\ nextId < MaxLines
                     /\ nextId' = l
                     /\ lineInfo' = [lineInfo EXCEPT ![l] =
                           [db |-> writer.db, meas |-> meas, gen |-> circles,
                            returned |-> Len(backends) = 0]]
                     /\ writer' = IF Len(backends) = 0
                                     THEN [writer EXCEPT !.body = Append(@, form),
                                                         !.rlock = FALSE]
                                     ELSE [writer EXCEPT !.pc = "fanout", !.line = l,
                                              !.backends = backends, !.idx = 1,
                                              !.lines = @ \cup {l},
                                              !.body = Append(@, form),
                                              !.rlock = FALSE]
    /\ UNCHANGED <<circles, reload, calls, accepted>>
    /\ UNCHANGED <<workerPc, closing, chWrite, chClosed, chTimer, buffers, toFlush,
                   poolReleased, wg, tasks, Active, rewriteRunning, loops, fb, httpClosed,
                   handed, delivered, dropped, lost, doneTasks>>

\* WriteRow asking ip.Circles() again for every backend of its loop
FanOut_RereadsCircles ==
    /\ writer.pc = "fanout"
    /\ LET l == writer.line
           be == GetBackends(GetKey(writer.db, lineInfo[l].meas))[writer.idx]
           last == writer.idx = Len(writer.backends)
       IN /\ calls' = [calls EXCEPT ![l] = Append(@, be)]
          /\ IF chClosed[be]
                THEN /\ writer' = [writer EXCEPT !.pc = "panicked"]
                     /\ UNCHANGED <<chWrite, handed, lineInfo>>
                ELSE /\ WritePoint(be, [id |-> l, db |-> writer.db, nl |-> FALSE])
                     /\ writer' = [writer EXCEPT !.idx = @ + 1,
                                                 !.pc = IF last THEN "loop" ELSE "fanout"]
                     /\ lineInfo' = [lineInfo EXCEPT ![l].returned = last]
    /\ UNCHANGED <<circles, reload, accepted, nextId>>
    /\ UNCHANGED <<workerPc, closing, chClosed, chTimer, buffers, toFlush,
                   poolReleased, wg, tasks, Active, rewriteRunning, loops, fb, httpClosed,
                   delivered, dropped, lost, doneTasks>>

\* WriteRow, one iteration of `for _, be := range backends`: be.WritePoint(point);
\* a send on the closed channel of a closed Backend panics and ends the request
FanOutCap(cap) ==
    /\ writer.pc = "fanout"
    /\ LET be == writer.backends[writer.idx]
           l == writer.line
           last == writer.idx = Len(writer.backends)
       IN /\ calls' = [calls EXCEPT ![l] = Append(@, be)]
          /\ IF chClosed[be]
                THEN /\ writer' = [writer EXCEPT !.pc = "panicked"]
                     /\ UNCHANGED <<chWrite, handed, lineInfo>>
                ELSE /\ WritePointCap(be, [id |-> l, db |-> writer.db, nl |-> FALSE], cap)
                     /\ writer' = [writer EXCEPT !.idx = @ + 1,
                                                 !.pc = IF last THEN "loop" ELSE "fanout"]
                     /\ lineInfo' = [lineInfo EXCEPT ![l].returned = last]
    /\ UNCHANGED <<circles, reload, accepted, nextId>>
    /\ UNCHANGED <<workerPc, closing, chClosed, chTimer, buffers, toFlush,
                   poolReleased, wg, tasks, Active, rewriteRunning, loops, fb, httpClosed,
                   delivered, dropped, lost, doneTasks>>

\* the fan-out on backends whose channel was made by NewBackend
FanOut == FanOutCap(ChanCap)

\* Proxy.Write reaches the end of the payload and returns nil: HandlerWrite answers 204
WriteEnd ==
    /\ writer.pc = "loop"
    /\ writer' = [IdleWriter EXCEPT !.db = writer.db, !.body = writer.body,
                                    !.lines = writer.lines, !.status = 204]
    /\ accepted' = accepted \cup writer.lines
    /\ UNCHANGED <<circles, reload, lineInfo, calls, nextId>>
    /\ UNCHANGED <<workerPc, closing, chWrite, chClosed, chTimer, buffers, toFlush,
                   poolReleased, wg, tasks, Active, rewriteRunning, loops, fb, httpClosed,
                   handed, delivered, dropped, lost, doneTasks>>

\* ReloadConfig: circles := newCircles(cfg): NewBackend starts a worker per backend
ReloadNew ==
    /\ reload.pc = "idle"
    /\ circles < Len(Generations)
    /\ workerPc' = [b \in Backends |->
                       IF b \in GenBackends(circles + 1) THEN "select" ELSE workerPc[b]]
    /\ reload' = [reload EXCEPT !.pc = "swap"]
    /\ UNCHANGED <<circles, writer, lineInfo, calls, accepted, nextId>>
    /\ UNCHANGED <<closing, chWrite, chClosed, chTimer, buffers, toFlush,
                   poolReleased, wg, tasks, Active, rewriteRunning, loops, fb, httpClosed,
                   handed, delivered, dropped, lost, doneTasks>>

\* the backends of a generation in the order Circle.Close reaches them
BackendSeq(g) ==
    LET cs == Generations[g]
        RECURSIVE Flat(_)
        Flat(i) == IF i > Len(cs) THEN <<>> ELSE cs[i] \o Flat(i + 1)
    IN Flat(1)

\* ReloadConfig: ip.lock.Lock(); oldCircles := ip.circles; ip.circles = circles;
\* ip.lock.Unlock()
ReloadSwapAt(pc) ==
    /\ reload.pc = pc
    /\ circles' = circles + 1
    /\ reload' = [pc |-> "close", toClose |-> BackendSeq(circles)]
    /\ UNCHANGED <<writer, lineInfo, calls, accepted, nextId>>
    /\ UNCHANGED <<workerPc, closing, chWrite, chClosed, chTimer, buffers, toFlush,
                   poolReleased, wg, tasks, Active, rewriteRunning, loops, fb, httpClosed,
                   handed, delivered, dropped, lost, doneTasks>>

\* ReloadConfig with Lock, the assignments and Unlock in one step
ReloadSwap == ReloadSwapAt("swap")

\* ReloadConfig: for _, c := range oldCircles { c.Close() }, one Backend.Close
ReloadClose ==
    /\ reload.pc = "close"
    /\ LET b == Head(reload.toClose)
       IN /\ poolReleased' = [poolReleased EXCEPT ![b] = TRUE]
          /\ chClosed' = [chClosed EXCEPT ![b] = TRUE]
    /\ reload' = [pc |-> IF Len(reload.toClose) = 1 THEN "done" ELSE "close",
                  toClose |-> Tail(reload.toClose)]
    /\ UNCHANGED <<circles, writer, lineInfo, calls, accepted, nextId>>
    /\ UNCHANGED <<workerPc, closing, chWrite, chTimer, buffers, toFlush,
                   wg, tasks, Active, rewriteRunning, loops, fb, httpClosed,
                   handed, delivered, dropped, lost, doneTasks>>

(* ------------------- ip.lock, one call at a time ----------------------- *)
\* sync.RWMutex.RLock returns when no goroutine holds the lock in write mode
\* or waits in Lock for it
MayRLock == reload.pc \notin {"lockWait", "locked"}

\* the requests that reach the IsForbiddenDB call of queryDB
LockWrites == [auth : {"ok"}, prec : {""}, db : ListedDbs, reqBody : {"readable"}]

\* IsForbiddenDB: ip.lock.RLock()
IsForbiddenRLock ==
    /\ writer.pc = "arrived"
    /\ ~writer.rlock
    /\ MayRLock
    /\ writer' = [writer EXCEPT !.rlock = TRUE]
    /\ UNCHANGED <<circles, reload, lineInfo, calls, accepted>>
    /\ UNCHANGED backendVars

\* IsForbiddenDB: the test under the lock and the deferred ip.lock.RUnlock();
\* HandlerWrite goes on with the answer
IsForbiddenRUnlock == writer.rlock /\ HandlerWriteCheck

\* Circles, called by GetBackends for the next line: ip.lock.RLock()
CirclesRLock ==
    /\ writer.pc = "loop"
    /\ ~writer.rlock
    /\ Len(writer.body) < MaxBodyLines
    /\ nextId < MaxLines
    /\ MayRLock
    /\ writer' = [writer EXCEPT !.rlock = TRUE]
    /\ UNCHANGED <<circles, reload, lineInfo, calls, accepted>>
    /\ UNCHANGED backendVars

\* Circles: return ip.circles and the deferred ip.lock.RUnlock(); WriteRow goes
\* on to its loop
CirclesRUnlock == writer.rlock /\ WriteRow({"ok"})

\* Proxy.Write returns, outside every call of Circles
WriteReturns == ~writer.rlock /\ WriteEnd

\* ReloadConfig: ip.lock.Lock() is called
ReloadLockCall ==
    /\ reload.pc = "swap"
    /\ reload' = [reload EXCEPT !.pc = "lockWait"]
    /\ UNCHANGED <<circles, writer, lineInfo, calls, accepted>>
    /\ UNCHANGED backendVars

\* ReloadConfig: ip.lock.Lock() returns when no reader holds the lock
ReloadLock ==
    /\ reload.pc = "lockWait"
    /\ ~writer.rlock
    /\ reload' = [reload EXCEPT !.pc = "locked"]
    /\ UNCHANGED <<circles, writer, lineInfo, calls, accepted>>
    /\ UNCHANGED backendVars

\* ReloadConfig: the assignments under the lock and ip.lock.Unlock()
ReloadUnlock == ReloadSwapAt("locked")

\* the line of another request, sent to a backend of the first generation
OtherLine == MaxLines + 1

OtherWrite(b) ==
    /\ ~chClosed[b]
    /\ OtherLine \notin handed[b]
    /\ WritePointCap(b, [id |-> OtherLine, db |-> "db1", nl |-> FALSE], narrowChan)
    /\ UNCHANGED <<workerPc, closing, chClosed, chTimer, buffers, toFlush, poolReleased,
                   wg, tasks, Active, rewriteRunning, loops, fb, httpClosed, nextId,
                   delivered, dropped, lost, doneTasks>>

NextLock ==
    \/ ((\E rq \in LockWrites : HandlerWrite(rq)) \/ IsForbiddenRLock \/ IsForbiddenRUnlock
        \/ CirclesRLock \/ CirclesRUnlock \/ FanOutCap(narrowChan) \/ WriteReturns
        \/ ReloadNew \/ ReloadLockCall \/ ReloadLock \/ ReloadUnlock \/ ReloadClose)
       /\ UNCHANGED <<adminVars, fnVars>>
    \/ (\E b \in GenBackends(1) : OtherWrite(b) \/ WriteBuffer(b))
       /\ UNCHANGED <<adminVars, proxyVars, fnVars>>

\* a goroutine that holds ip.lock, or that calls Lock, is scheduled; nothing
\* is assumed of the workers that empty the channels
FairLock ==
    /\ WF_vars((ReloadLockCall \/ ReloadLock \/ ReloadUnlock) /\ UNCHANGED <<adminVars, fnVars>>)
    /\ WF_vars((IsForbiddenRUnlock \/ CirclesRUnlock) /\ UNCHANGED <<adminVars, fnVars>>)

FairSpecLock == Init /\ [][NextLock]_vars /\ FairLock

\* the backends of the Proxy take in, flush and send what they were handed; their
\* upstream answers 204 or fails transiently
ProxyBackendStep(b) ==
    \/ WriteBuffer(b)
    \/ TimerFlush(b)
    \/ WorkerClosed(b)
    \/ \E db \in DBs : FlushBuffer(b, db)
    \/ WorkerExit(b)
    \/ \E t \in tasks[b] : FlushTaskStart(b, t)
    \/ \E t \in tasks[b], err \in {"ok", "Transient"} : FlushTaskResult(b, t, err)

NextProxy ==
    \/ ((\E rq \in ValidWrites : HandlerWrite(rq)) \/ HandlerWriteCheck \/ WriteRow({"ok"})
        \/ FanOut \/ WriteEnd \/ ReloadNew \/ ReloadSwap \/ ReloadClose)
       /\ UNCHANGED <<adminVars, fnVars>>
    \/ (\E b \in Backends : ProxyBackendStep(b)) /\ UNCHANGED <<adminVars, proxyVars, fnVars>>

SpecProxy == Init /\ [][NextProxy]_vars

\* the fan-out alone: requests, reload, and workers that take the points out of
\* their channels
NextFanout ==
    \/ ((\E rq \in WriteRequests : HandlerWrite(rq)) \/ HandlerWriteCheck
        \/ WriteRow(LineForms) \/ FanOut \/ WriteEnd
        \/ ReloadNew \/ ReloadSwap \/ ReloadClose)
       /\ UNCHANGED <<adminVars, fnVars>>
    \/ (\E b \in Backends : WriteBuffer(b)) /\ UNCHANGED <<adminVars, proxyVars, fnVars>>

SpecFanout == Init /\ [][NextFanout]_vars

SpecAdmin == Init /\ [][NextAdmin]_vars
SpecService == Init /\ [][NextService]_vars
SpecParam == Init /\ [][NextParam]_vars

(* ------------- the FileQueue record encoding on its own ---------------- *)
\* bounds of the database names and compressed batches the encoding is applied to
MaxDbLen == 3
MaxPayloadLen == 2
\* bytes of database names: d, ' ', '+', '%', 2, B
DbAlphabet == {100, 32, 43, 37, 50, 66}
\* bytes of compressed batches: ' ', 0x1f, a line, '\n'
PayloadAlphabet == {32, 31, 1, 0}
SeqsOfLen(S, lo, hi) == UNION {[1..k -> S] : k \in lo..hi}

\* a flush task is about to queue the compressed batch p of database db
InitCodec ==
    /\ InitBackend /\ InitAdmin /\ InitProxy /\ hsCfg = InitCfg
    /\ fnCall \in {[fn |-> "codec", pc |-> "flush", db |-> db, p |-> p,
                     rec |-> <<>>, err |-> "", outDb |-> <<>>, outP |-> <<>>] :
                       db \in SeqsOfLen(DbAlphabet, 0, MaxDbLen),
                       p \in SeqsOfLen(PayloadAlphabet, 1, MaxPayloadLen)}

\* FlushBuffer: b := bytes.Join(...); ib.fb.Write(b)
CodecFlush ==
    /\ fnCall.fn = "codec" /\ fnCall.pc = "flush"
    /\ fnCall' = [fnCall EXCEPT !.pc = "queued", !.rec = EncodeRecord(fnCall.db, fnCall.p)]

\* Rewrite: b := ib.fb.Read() up to the arguments of ib.WriteCompressed(db, p[1])
CodecRewrite ==
    /\ fnCall.fn = "codec" /\ fnCall.pc = "queued"
    /\ fnCall' = [fnCall EXCEPT !.pc = "sent",
                                 !.err = DecodeRecord(fnCall.rec).err,
                                 !.outDb = DecodeRecord(fnCall.rec).db,
                                 !.outP = DecodeRecord(fnCall.rec).p]

NextCodec ==
    (CodecFlush \/ CodecRewrite) /\ UNCHANGED <<backendVars, adminVars, proxyVars, hsCfg>>

SpecCodec == InitCodec /\ [][NextCodec]_vars

(* ---------------------- IsForbiddenDB on its own ----------------------- *)
\* length of ProxyConfig.DBList
MaxDbList == 2
\* a Proxy built from a configuration with the given DBList is asked about db
InitForbidden ==
    /\ InitBackend /\ InitAdmin /\ InitProxy /\ hsCfg = InitCfg
    /\ fnCall \in {[fn |-> "IsForbiddenDB", pc |-> "call", db |-> db, list |-> list,
                     out |-> FALSE] :
                       db \in RequestDbs, list \in SeqsOfLen(ListedDbs, 0, MaxDbList)}

ForbiddenCall ==
    /\ fnCall.fn = "IsForbiddenDB" /\ fnCall.pc = "call"
    /\ fnCall' = [fnCall EXCEPT !.pc = "done",
                                 !.out = IsForbiddenDB(fnCall.db, newDBSet(fnCall.list))]
    /\ UNCHANGED <<backendVars, adminVars, proxyVars, hsCfg>>

SpecForbidden == InitForbidden /\ [][ForbiddenCall]_vars

(* ------------------- authentication of a request ----------------------- *)
\* util.AesEncrypt: deterministic, and no text is its own ciphertext
AesEncrypt(text) == "aes:" \o text

\* the stored credentials and auth_encrypt of the configurations examined: no
\* credentials, plain ones, encrypted ones, a username only
AuthConfigs ==
    {[username |-> "", password |-> "", authEncrypt |-> FALSE],
     [username |-> "admin", password |-> "secret", authEncrypt |-> FALSE],
     [username |-> AesEncrypt("admin"), password |-> AesEncrypt("secret"), authEncrypt |-> TRUE],
     [username |-> "admin", password |-> "", authEncrypt |-> FALSE],
     [username |-> AesEncrypt("admin"), password |-> "", authEncrypt |-> TRUE]}

\* the query-string values u, p and the basic-auth pair of the requests examined
QueryPairs == {<<"", "">>, <<"admin", "secret">>, <<"admin", "x">>, <<"admin", "">>,
               <<"aes:admin", "aes:secret">>}
BasicPairs == {<<"admin", "secret">>, <<"x", "secret">>, <<"aes:admin", "aes:secret">>}
Credentials ==
    {[u |-> q[1], p |-> q[2], basic |-> FALSE, bu |-> "", bp |-> ""] : q \in QueryPairs}
    \cup {[u |-> q[1], p |-> q[2], basic |-> TRUE, bu |-> b[1], bp |-> b[2]] :
             q \in QueryPairs, b \in BasicPairs}

\* transAuth returning the text as it is whatever auth_encrypt says
transAuth_Plain(cfg, text) == text

\* HttpService.transAuth
transAuth(cfg, text) == IF cfg.authEncrypt THEN AesEncrypt(text) ELSE text

\* HttpService.checkAuth
checkAuth(cfg, rq) ==
    IF cfg.username = "" /\ cfg.password = "" THEN TRUE
    ELSE IF transAuth(cfg, rq.u) = cfg.username /\ transAuth(cfg, rq.p) = cfg.password THEN TRUE
    ELSE IF rq.basic /\ transAuth(cfg, rq.bu) = cfg.username
                     /\ transAuth(cfg, rq.bp) = cfg.password THEN TRUE
    ELSE FALSE

\* the first statement of an authenticated handler, checkMethodAndAuth(w, req,
\* "POST"): 405, or 401 "authentication failed", or the handler goes on
HandlerEntry(r) ==
    /\ req[r].pc \in {"idle", "done"}
    /\ \E method \in {"GET", "POST"}, cfg \in AuthConfigs, rq \in Credentials :
          IF method # "POST"
             THEN /\ Respond(r, 405, "method")
                  /\ fnCall' = NoCall
                  /\ UNCHANGED <<transferring, resyncing, txWorker, txBatch, txLimit,
                                 txHaAddrs, jobs>>
             ELSE /\ fnCall' = [fn |-> "checkAuth", cfg |-> cfg, rq |-> rq,
                                out |-> checkAuth(cfg, rq)]
                  /\ IF checkAuth(cfg, rq)
                        THEN HandlerArrive(r)
                        ELSE /\ Respond(r, 401, "authentication failed")
                             /\ UNCHANGED <<transferring, resyncing, txWorker, txBatch,
                                            txLimit, txHaAddrs, jobs>>

\* the first steps of an operator endpoint behind the authentication, one
\* request at a time
AuthStep ==
    \/ HandlerEntry(1) /\ UNCHANGED <<backendVars, proxyVars, hsCfg>>
    \/ HandlerCheckTransferring(1) /\ UNCHANGED <<backendVars, proxyVars, fnVars>>
    \/ HandlerCheckResyncing(1) /\ UNCHANGED <<backendVars, proxyVars, fnVars>>

SpecAuth == Init /\ [][AuthStep]_vars

(* ------------------------- /transfer/state ----------------------------- *)
\* form values "resyncing" and "transferring": absent, two spellings that
\* strconv.ParseBool accepts, one it does not
BoolForms == {"", "true", "0", "x"}
\* form value "circle_id": absent, the two circles, a circle that does not
\* exist, not a number
CircleIdForms == {"", "0", "1", "2", "x"}
StateForms == [method : {"GET", "POST"}, resyncing : BoolForms, circle_id : CircleIdForms,
               transferring : BoolForms]

\* formBool: strconv.ParseBool(req.FormValue(key))
formBool(str) ==
    CASE str \in {"1", "t", "T", "TRUE", "true", "True"} -> [err |-> FALSE, v |-> TRUE]
      [] str \in {"0", "f", "F", "FALSE", "false", "False"} -> [err |-> FALSE, v |-> FALSE]
      [] OTHER -> [err |-> TRUE, v |-> FALSE]

\* formCircleId: strconv.Atoi and the test against len(hs.ip.Circles())
formCircleId(str) ==
    CASE str = "0" -> [err |-> FALSE, id |-> 0]
      [] str = "1" -> [err |-> FALSE, id |-> 1]
      [] str = "2" -> [err |-> TRUE, id |-> 2]
      [] OTHER -> [err |-> TRUE, id |-> 0]

\* HandlerTransferState, method POST: the resyncing part writes hs.tx.Resyncing,
\* then the circle part parses circle_id and transferring and writes
\* cs.Transferring; 400 "missing query parameter" when neither part ran
TransferStatePost(st, f) ==
    LET rs == formBool(f.resyncing)
        named == f.circle_id # "" \/ f.transferring # ""
        cid == formCircleId(f.circle_id)
        tr == formBool(f.transferring)
        st1 == IF f.resyncing # "" THEN [st EXCEPT !.resyncing = rs.v] ELSE st
    IN IF f.resyncing # "" /\ rs.err
          THEN [st EXCEPT !.status = 400, !.why = "illegal resyncing"]
       ELSE IF named /\ cid.err
          THEN [st1 EXCEPT !.status = 400, !.why = "invalid circle_id"]
       ELSE IF named /\ tr.err
          THEN [st1 EXCEPT !.status = 400, !.why = "illegal transferring"]
       ELSE IF f.resyncing = "" /\ ~named
          THEN [st1 EXCEPT !.status = 400, !.why = "missing query parameter"]
       ELSE [st1 EXCEPT !.status = 200, !.why = "",
                        !.transferring = IF named THEN [@ EXCEPT ![cid.id] = tr.v] ELSE @]

\* HandlerTransferState of an authenticated request: GET reports the flags,
\* POST sets them
HandlerTransferState(r) ==
    /\ req[r].pc \in {"idle", "done"}
    /\ \E f \in StateForms :
          LET st == [status |-> 0, why |-> "", resyncing |-> resyncing,
                     transferring |-> transferring]
              out == IF f.method = "GET" THEN [st EXCEPT !.status = 200]
                     ELSE TransferStatePost(st, f)
          IN /\ resyncing' = out.resyncing
             /\ transferring' = out.transferring
             /\ Respond(r, out.status, out.why)
             /\ fnCall' = [fn |-> "HandlerTransferState", form |-> f, status |-> out.status]
    /\ UNCHANGED <<txWorker, txBatch, txLimit, txHaAddrs, jobs>>

NextState == HandlerTransferState(1) /\ UNCHANGED <<backendVars, proxyVars, hsCfg>>

SpecState == Init /\ [][NextState]_vars

(* ------------------------------ /reload -------------------------------- *)
\* what ReadFileConfig can return: the circles and DBList of the running
\* generation or of the next one, and any listener settings
ConfigFiles ==
    [gen : {g \in {circles, circles + 1} : g <= Len(Generations)},
     listen_addr : {":7076", ":7077"}, idle_timeout : {10, 20}, https_enabled : BOOLEAN]

\* a KeepInRuntime that keeps nothing
KeepInRuntime_Nothing(nfc, cfg) == nfc

\* ProxyConfig.KeepInRuntime: the items that cannot be modified in runtime are
\* taken from the running configuration
KeepInRuntime(nfc, cfg) ==
    [nfc EXCEPT !.listen_addr = cfg.listen_addr, !.idle_timeout = cfg.idle_timeout,
                !.https_enabled = cfg.https_enabled]

\* a /reload request is between hs.ip.ReloadConfig and its answer
Reloading == fnCall.fn = "HandlerReload" /\ fnCall.status = 0

\* HandlerReload up to the call of hs.ip.ReloadConfig: an unchanged file and
\* a file that differs in items kept in runtime only are answered 500, and
\* so is a data directory that cannot be made; otherwise ReloadConfig builds
\* the new circles
HandlerReload(f, mkdir) ==
    /\ ~Reloading
    /\ reload.pc \in {"idle", "done"}
    /\ LET nfc == KeepInRuntime(f, hsCfg)
           why == IF f = hsCfg THEN "config not changed"
                  ELSE IF nfc = hsCfg THEN "config changed, but ignored"
                  ELSE IF mkdir = "err" THEN "mkdir"
                  ELSE ""
       IN IF why # ""
             THEN /\ fnCall' = [fn |-> "HandlerReload", file |-> f, nfc |-> nfc,
                                status |-> 500, why |-> why]
                  /\ UNCHANGED <<backendVars, proxyVars>>
             ELSE /\ fnCall' = [fn |-> "HandlerReload", file |-> f, nfc |-> nfc,
                                status |-> 0, why |-> ""]
                  /\ ReloadNew
    /\ UNCHANGED <<adminVars, hsCfg>>

\* HandlerReload after hs.ip.ReloadConfig returned nil: hs.setConfig(nfc) and
\* the answer 200
HandlerReloadEnd ==
    /\ Reloading
    /\ reload.pc = "done"
    /\ hsCfg' = fnCall.nfc
    /\ fnCall' = [fnCall EXCEPT !.status = 200]
    /\ UNCHANGED <<backendVars, adminVars, proxyVars>>

\* /reload requests one at a time, and the workers of the closed Backends
NextReload ==
    \/ \E f \in ConfigFiles, mkdir \in {"ok", "err"} : HandlerReload(f, mkdir)
    \/ (ReloadSwap \/ ReloadClose) /\ UNCHANGED <<adminVars, fnVars>>
    \/ HandlerReloadEnd
    \/ (\E b \in Backends : WorkerClosed(b) \/ WorkerExit(b))
       /\ UNCHANGED <<adminVars, proxyVars, fnVars>>

SpecReload == Init /\ [][NextReload]_vars

(* --------------------- specification of one Backend -------------------- *)
BackendStep ==
    \/ ClientWrite(B0)
    \/ Close(B0)
    \/ SetActive(B0)
    \/ WriteBuffer(B0)
    \/ TimerFlush(B0)
    \/ WorkerClosed(B0)
    \/ \E db \in DBs : FlushBuffer(B0, db)
    \/ WorkerExit(B0)
    \/ \E t \in tasks[B0] : FlushTaskStart(B0, t)
    \/ \E t \in tasks[B0], err \in HttpResults : FlushTaskResult(B0, t, err)
    \/ RewriteIdle(B0)
    \/ \E i \in 1..MaxLoops : RewriteLoop(B0, i)
    \/ \E i \in 1..MaxLoops, err \in HttpResults : Rewrite(B0, i, err)
    \/ \E i \in 1..MaxLoops : RewriteWake(B0, i)

NextBackend == BackendStep /\ UNCHANGED <<adminVars, proxyVars, fnVars>>

SpecBackend == Init /\ [][NextBackend]_vars

\* the worker, the pool tasks and Close of a Backend that stays active, with
\* ConnPoolSize = widePoolSize
WorkerStep ==
    \/ ClientWriteUpTo(B0, MaxWorkerPoints)
    \/ Close(B0)
    \/ WriteBuffer(B0)
    \/ TimerFlush(B0)
    \/ WorkerClosed(B0)
    \/ \E db \in DBs : FlushBufferOf(B0, db, widePoolSize)
    \/ WorkerExit(B0)
    \/ \E t \in tasks[B0] : FlushTaskStart(B0, t)
    \/ \E t \in tasks[B0], err \in HttpResults : FlushTaskResult(B0, t, err)

NextWorker == WorkerStep /\ UNCHANGED <<adminVars, proxyVars, fnVars>>

SpecWorker == Init /\ [][NextWorker]_vars

\* the scheduler runs every goroutine that can take a step, HTTP calls return,
\* sleeps and timers expire
FairBackend ==
    /\ WF_vars((WriteBuffer(B0) \/ TimerFlush(B0) \/ WorkerClosed(B0) \/ WorkerExit(B0)
                \/ \E db \in DBs : FlushBuffer(B0, db)) /\ UNCHANGED <<adminVars, proxyVars, fnVars>>)
    /\ WF_vars((\E t \in tasks[B0] : FlushTaskStart(B0, t)) /\ UNCHANGED <<adminVars, proxyVars, fnVars>>)
    /\ WF_vars((\E t \in tasks[B0], err \in HttpResults : FlushTaskResult(B0, t, err))
               /\ UNCHANGED <<adminVars, proxyVars, fnVars>>)
    /\ WF_vars((\E i \in 1..MaxLoops : RewriteLoop(B0, i)) /\ UNCHANGED <<adminVars, proxyVars, fnVars>>)
    /\ WF_vars((\E i \in 1..MaxLoops, err \in HttpResults : Rewrite(B0, i, err))
               /\ UNCHANGED <<adminVars, proxyVars, fnVars>>)
    /\ WF_vars((\E i \in 1..MaxLoops : RewriteWake(B0, i)) /\ UNCHANGED <<adminVars, proxyVars, fnVars>>)

FairSpecBackend == SpecBackend /\ FairBackend

\* the rewrite ticker fires every rewriteInterval seconds
FairRewriteTick == WF_vars(RewriteIdle(B0) /\ UNCHANGED <<adminVars, proxyVars, fnVars>>)

\* the upstream does not answer Transient for ever: a WriteCompressed call of
\* Rewrite that is made again and again eventually returns a terminal result
UpstreamRecovers ==
    SF_vars((\E i \in 1..MaxLoops, err \in Terminal : Rewrite(B0, i, err))
            /\ UNCHANGED <<adminVars, proxyVars, fnVars>>)

FairSpecRewrite == FairSpecBackend /\ FairRewriteTick /\ UpstreamRecovers

\* the worker goroutine and the goroutines of the pool of widePoolSize workers
\* are scheduled; the timer of flushTime seconds fires
FairWorker ==
    /\ WF_vars((WriteBuffer(B0) \/ TimerFlush(B0) \/ WorkerClosed(B0) \/ WorkerExit(B0)
                \/ \E db \in DBs : FlushBufferOf(B0, db, widePoolSize))
               /\ UNCHANGED <<adminVars, proxyVars, fnVars>>)
    /\ WF_vars((\E t \in tasks[B0] : FlushTaskStart(B0, t)) /\ UNCHANGED <<adminVars, proxyVars, fnVars>>)
    /\ WF_vars((\E t \in tasks[B0], err \in HttpResults : FlushTaskResult(B0, t, err))
               /\ UNCHANGED <<adminVars, proxyVars, fnVars>>)

FairSpecWorker == SpecWorker /\ FairWorker

(* ================= properties of the operator admission ================ *)
PerCircleOperators == {"rebalance", "recovery", "cleanup"}

\* the per-circle operator jobs running on circle c
RunningOn(c) ==
    {j \in 1..MaxJobs : /\ jobs[j].pc = "running"
                        /\ jobs[j].kind \in PerCircleOperators
                        /\ c \in JobCircles(jobs[j].kind, jobs[j].c1, jobs[j].c2)}

RunningResyncs == {j \in 1..MaxJobs : jobs[j].pc = "running" /\ jobs[j].kind = "resync"}

\* C3: at any time at most one per-circle operator job (rebalance, recovery or
\* cleanup) is running on any given circle, for every interleaving of requests.
C3_OneOperatorPerCircle == \A c \in CircleIds : Cardinality(RunningOn(c)) <= 1

\* the handler of request r takes a step
Handles(r) == req'[r] # req[r]

\* request r is answered with an error status and no operator job is started
Refused(r) == req'[r].pc = "done" /\ req'[r].status = 400 /\ jobs' = jobs

\* C4: a rebalance, recovery or cleanup request whose handler tests Transferring
\* while the flag of a circle it names is true, or tests Resyncing while it is
\* true, is refused and starts no operator job.
C4_RefusedWhileFlagSet ==
    [][\A r \in 1..MaxReqs :
          /\ (/\ Handles(r)
              /\ req[r].pc = "checkTransferring"
              /\ req[r].kind \in PerCircleOperators
              /\ \E c \in JobCircles(req[r].kind, req[r].c1, req[r].c2) : transferring[c])
             => Refused(r)
          /\ (/\ Handles(r)
              /\ req[r].pc = "checkResyncing"
              /\ req[r].kind \in PerCircleOperators
              /\ resyncing)
             => Refused(r)]_vars

\* one request was refused because of a transferring circle and one because of
\* the resync, and both flags are still set
C4_Witness ==
    /\ \E r \in 1..MaxReqs : req[r].pc = "done" /\ req[r].why = "transferring"
    /\ \E r \in 1..MaxReqs : req[r].pc = "done" /\ req[r].why = "resyncing"
    /\ resyncing
    /\ \E c \in CircleIds : transferring[c]

\* C5: at any time at most one resync job is running, and a /resync request
\* whose handler finds a circle transferring or the proxy resyncing is refused,
\* for every interleaving of /resync and per-circle operator requests.
C5_OneResync ==
    /\ [](Cardinality(RunningResyncs) <= 1)
    /\ [][\A r \in 1..MaxReqs :
             (/\ Handles(r)
              /\ req[r].kind = "resync"
              /\ \/ req[r].pc = "checkTransferring" /\ \E c \in CircleIds : transferring[c]
                 \/ req[r].pc = "checkResyncing" /\ resyncing)
             => Refused(r)]_vars

(* ======================= properties of one Backend ===================== *)
\* line ids still on their way through the backend: in the channel, in a
\* buffer, or in a batch whose pool task is running
InChannel(b) == {chWrite[b][i].id : i \in 1..Len(chWrite[b])}
InBuffers(b) == UNION {LinesOf(buffers[b][db].Buffer) : db \in DBs}
InTasks(b) == UNION {LinesOf(t.p) : t \in tasks[b]}
InPipeline(b) == InChannel(b) \cup InBuffers(b) \cup InTasks(b)

\* number of FileQueue records holding the compressed batch p
RecordsOf(b, p) ==
    Cardinality({i \in 1..Len(fb[b].recs) : DecodeRecord(fb[b].recs[i]).p = Compress(p)})

\* the finished flush tasks whose batch contains the line
OutcomesOf(b, id) == {t \in doneTasks[b] : id \in LinesOf(t.p)}

\* C1: every line handed to WritePoint that is no longer in the channel, in a
\* buffer or in a running task has exactly one outcome: its batch was
\* acknowledged by WriteCompressed, dropped on BadRequest / NotFound, or written
\* to the FileQueue; in particular a Transient batch is in the FileQueue.
C1_EveryLineHasOneOutcome ==
    \A id \in handed[B0] \ InPipeline(B0) :
        /\ Cardinality(OutcomesOf(B0, id)) = 1
        /\ \A t \in OutcomesOf(B0, id) :
              \/ t.sawActive /\ t.res \in Terminal /\ RecordsOf(B0, t.p) = 0
              \/ (~t.sawActive \/ t.res = "Transient") /\ RecordsOf(B0, t.p) = 1

RunningLoops(b) == {i \in 1..MaxLoops : loops[b][i].pc # "none"}

\* C6: at most one RewriteLoop goroutine exists per Backend, rewriteRunning is
\* true while it exists, and a step that starts a loop is taken with
\* rewriteRunning false and data in the FileQueue.
C6_OneRewriteLoop ==
    /\ [](/\ Cardinality(RunningLoops(B0)) <= 1
          /\ (RunningLoops(B0) # {} => rewriteRunning[B0]))
    /\ [][(\E i \in 1..MaxLoops : loops[B0][i].pc = "none" /\ loops'[B0][i].pc # "none")
             => (~rewriteRunning[B0] /\ IsData(fb[B0]))]_vars

\* a rewrite tick can arrive while a loop is in its HTTP call and data is queued
C6_Witness ==
    /\ workerPc[B0] = "select"
    /\ \E i \in 1..MaxLoops : loops[B0][i].pc = "http"
    /\ IsData(fb[B0])
    /\ rewriteRunning[B0]

\* C7: a closed Backend (worker exited after closing HttpClient and FileQueue)
\* has no flush task in flight and no goroutine that still uses the FileQueue
\* or the HttpClient.
C7_ClosedBackendIsQuiet ==
    workerPc[B0] = "exited" =>
        /\ tasks[B0] = {}
        /\ wg[B0] = 0
        /\ RunningLoops(B0) = {}

\* C8: after Close the worker eventually flushes every buffered line, waits for
\* the pool tasks, closes the HttpClient and the FileQueue and exits.
C8_CloseTerminates ==
    chClosed[B0] ~> (/\ workerPc[B0] = "exited"
                     /\ fb[B0].closed /\ httpClosed[B0]
                     /\ lost[B0] = {}
                     /\ InPipeline(B0) = {})

\* C10: a finished flush task that saw the Backend active and got ok,
\* BadRequest or NotFound left no FileQueue record of its batch (so the
\* rewrite loop never sends it again); one that got another error left
\* exactly one record.
C10_FlushResultHandling ==
    \A t \in doneTasks[B0] :
        t.sawActive =>
            /\ t.res \in HttpResults
            /\ (t.res \in Terminal => t.nfile = 0 /\ RecordsOf(B0, t.p) = 0)
            /\ (t.res \notin Terminal => t.nfile = 1 /\ RecordsOf(B0, t.p) = 1)

\* one batch went to the FileQueue after a Transient result, another was dropped
\* on BadRequest
C10_Witness ==
    /\ \E t \in doneTasks[B0] : t.sawActive /\ t.res = "Transient" /\ RecordsOf(B0, t.p) = 1
    /\ \E t \in doneTasks[B0] : t.sawActive /\ t.res = "BadRequest" /\ RecordsOf(B0, t.p) = 0

\* the FileQueue records of backend b that are exactly the bytes r
RecordsEqual(b, r) == {i \in 1..Len(fb[b].recs) : fb[b].recs[i] = r}

\* C11: a flush task that found the Backend inactive made no WriteCompressed
\* call (it has no HTTP result) and wrote exactly one FileQueue record, whose
\* bytes are url-escape(db), ' ', compressed(batch).
C11_InactiveGoesToFileQueue ==
    \A t \in doneTasks[B0] :
        ~t.sawActive =>
            /\ t.res = "none"
            /\ t.nfile = 1
            /\ Cardinality(RecordsEqual(B0,
                   QueryEscape(DbBytes(t.db)) \o <<32>> \o Compress(t.p))) = 1
            /\ \A i \in 1..Len(fb[B0].recs) :
                  DecodeRecord(fb[B0].recs[i]).p = Compress(t.p)
                     => fb[B0].recs[i] = QueryEscape(DbBytes(t.db)) \o <<32>> \o Compress(t.p)

\* an inactive Backend queued the one-line batch of database "my db": the
\* record is my+db, ' ', the gzip magic, the line and its newline
C11_Witness ==
    \E t \in doneTasks[B0] :
        /\ ~t.sawActive
        /\ t.db = "my db"
        /\ t.p = <<1, NL>>
        /\ RecordsEqual(B0, <<109, 121, 43, 100, 98, 32, 31, 139, 1, 0>>) # {}

Drained(b) == ~IsData(fb[b]) /\ ~rewriteRunning[b]

\* C12: for a Backend that is not closed and from some point on stays active,
\* with an upstream whose WriteCompressed does not return Transient for ever
\* and fair scheduling of the rewrite tick and the rewrite loop, a FileQueue
\* that holds records is eventually drained: IsData() is false and
\* rewriteRunning is false again.
C12_RewriteDrains ==
    ([]~chClosed[B0] /\ <>[]Active[B0]) => (IsData(fb[B0]) ~> Drained(B0))

\* the rewrite loop has sent every record of a non-empty FileQueue and ended
C12_Witness ==
    /\ Len(fb[B0].recs) > 0
    /\ Drained(B0)
    /\ Active[B0]
    /\ ~chClosed[B0]
    /\ RunningLoops(B0) = {}

\* the rewrite loop in slot i returns from the WriteCompressed call of Rewrite
RewriteReturns(i) == loops[B0][i].pc = "http" /\ loops'[B0][i].pc # "http"

RewriteSends(i) == loops[B0][i].pc # "http" /\ loops'[B0][i].pc = "http"

\* C14: the rewrite loop sends the records of the FileQueue in the order they
\* were written and removes none unsent: records are only appended; every
\* WriteCompressed call of Rewrite carries the oldest record that is not
\* committed, decoded; and the read offset moves only by one record, in a step
\* in which the WriteCompressed call for exactly that record returns ok,
\* BadRequest or NotFound.
C14_RewriteFifoAtLeastOnce ==
    [][/\ SubSeq(fb'[B0].recs, 1, Len(fb[B0].recs)) = fb[B0].recs
       /\ \A i \in 1..MaxLoops :
             RewriteSends(i) =>
                 /\ loops'[B0][i].rec = fb[B0].committed + 1
                 /\ loops'[B0][i].p = SplitN(fb[B0].recs[fb[B0].committed + 1])[2]
       /\ fb'[B0].committed # fb[B0].committed =>
             /\ fb'[B0].committed = fb[B0].committed + 1
             /\ \E i \in 1..MaxLoops :
                   /\ RewriteReturns(i)
                   /\ loops[B0][i].rec = fb'[B0].committed
                   /\ loops'[B0][i].res \in Terminal]_vars

\* two records were written; the first was sent and committed, the second is
\* being sent
C14_Witness ==
    /\ Len(fb[B0].recs) = 2
    /\ fb[B0].committed = 1
    /\ \E i \in 1..MaxLoops :
          /\ loops[B0][i].pc = "http"
          /\ loops[B0][i].rec = 2
          /\ LinesOf(Decompress(loops[B0][i].p)) \subseteq handed[B0] \ delivered[B0]

(* ================== properties of the write fan-out ==================== *)
\* line ids in the FileQueue of backend b
Queued(b) ==
    UNION {LinesOf(Decompress(DecodeRecord(fb[b].recs[i]).p)) : i \in 1..Len(fb[b].recs)}

\* C2: with ReloadConfig running concurrently with Write, every line of a
\* request that Write answered is, at every backend WriteRow handed it to
\* (old or new generation), on its way through the backend, delivered, or
\* queued in the FileQueue.
C2_NoAcceptedLineLost ==
    \A l \in accepted :
        \A i \in 1..Len(calls[l]) :
            l \in InPipeline(calls[l][i]) \cup delivered[calls[l][i]] \cup Queued(calls[l][i])

\* the backend of each replica group for line l, by the circles WriteRow saw
ExpectedBackends(l) ==
    LET cs == Generations[lineInfo[l].gen]
    IN [i \in 1..Len(cs) |-> GetBackend(cs[i], lineInfo[l].db \o "," \o lineInfo[l].meas)]

\* C9: for a well-formed line of database db and measurement meas, WriteRow
\* calls WritePoint once per replica group, in order, on the backend that
\* group's GetBackend(db + "," + meas) returns, and on no other backend: the
\* calls made so far are a prefix of that list, a WriteRow that returned made
\* all of them, and no other backend holds the line.
C9_WriteRowFanOut ==
    \A l \in 1..MaxLines :
        lineInfo[l].gen > 0 =>
            /\ Len(calls[l]) <= Len(ExpectedBackends(l))
            /\ \A i \in 1..Len(calls[l]) : calls[l][i] = ExpectedBackends(l)[i]
            /\ (lineInfo[l].returned => calls[l] = ExpectedBackends(l))
            /\ \A b \in Backends :
                  l \in handed[b] => \E i \in 1..Len(calls[l]) : calls[l][i] = b

\* WriteRow returned after handing a line to one backend of each of two
\* replica groups
C9_Witness ==
    \E l \in 1..MaxLines :
        /\ lineInfo[l].returned
        /\ Len(calls[l]) = 2
        /\ calls[l][1] # calls[l][2]
        /\ l \in handed[calls[l][1]] \cap handed[calls[l][2]]

\* WriteRow returned for line l and every WritePoint of it put the point into
\* the channel of its backend
Handed(l) == lineInfo[l].returned /\ \A i \in 1..Len(calls[l]) : l \in handed[calls[l][i]]

\* the step hands nothing to any backend
NothingHanded == calls' = calls /\ handed' = handed /\ chWrite' = chWrite

\* C17: for an authorized POST, HandlerWrite answers 400 and hands no line to
\* any backend when the precision is not one of "", n, ns, u, ms, s, m, h, when
\* db is empty, or when db is forbidden (also when the body cannot be read);
\* otherwise it calls Proxy.Write, and the request then ends only with 204, in
\* a step taken after every line of it was handed to the backend channels and
\* that waits for no backend.
C17_HandlerWriteStatus ==
    [][/\ (writer.pc = "arrived" /\ writer'.pc # "arrived" /\ writer.auth = "ok") =>
             IF \/ writer.prec \notin {"", "n", "ns", "u", "ms", "s", "m", "h"}
                \/ writer.db = ""
                \/ writer.db = "_internal"
                \/ /\ Len(GenDBList[circles]) > 0
                   /\ \A i \in 1..Len(GenDBList[circles]) : GenDBList[circles][i] # writer.db
                \/ writer.reqBody # "readable"
                THEN writer'.pc = "idle" /\ writer'.status = 400 /\ NothingHanded
                ELSE writer'.pc = "loop" /\ writer'.status = 0 /\ NothingHanded
       /\ (writer.pc \in {"loop", "fanout"} /\ writer'.pc \notin {"loop", "fanout", "panicked"}) =>
             /\ writer.pc = "loop"
             /\ writer'.pc = "idle" /\ writer'.status = 204
             /\ \A l \in writer.lines : Handed(l)
             /\ accepted' = accepted \cup writer.lines
             /\ NothingHanded
             /\ backendVars' = backendVars]_vars

\* a request was answered 204 while its line is in the channel of a backend
\* that has flushed and delivered nothing
C17_Witness ==
    /\ writer.pc = "idle" /\ writer.status = 204
    /\ \E l \in writer.lines :
          \E b \in Backends : l \in InChannel(b) /\ delivered[b] = {} /\ fb[b].recs = <<>>

BadForms == {"blank", "noKey", "badFormat"}

\* Proxy.Write takes the next line of the payload
ReadsLine == writer.pc = "loop" /\ Len(writer'.body) = Len(writer.body) + 1

\* C18: in Proxy.Write a blank line, a line without a key or a line that fails
\* the format check causes no WritePoint on any backend and leaves Write in
\* its loop; the other lines of the payload are fanned out (a finished Write
\* handed over as many lines as its payload had well-formed ones) and Write
\* returns no error (the request is answered 204).
C18_BadLinesSkipped ==
    /\ [][(ReadsLine /\ writer'.body[Len(writer'.body)] \in BadForms) =>
              /\ NothingHanded
              /\ nextId' = nextId
              /\ writer'.pc = "loop"
              /\ writer'.lines = writer.lines]_vars
    /\ []((writer.pc = "idle" /\ writer.body # <<>>) =>
              /\ writer.status = 204
              /\ Cardinality(writer.lines) =
                    Cardinality({i \in 1..Len(writer.body) : writer.body[i] = "ok"})
              /\ \A l \in writer.lines : Handed(l))

\* a payload of a line without a key followed by a well-formed line: the
\* second line was handed to its backends and the request answered 204
C18_Witness ==
    /\ writer.pc = "idle" /\ writer.status = 204
    /\ writer.body = <<"noKey", "ok">>
    /\ \E l \in writer.lines : Handed(l) /\ Len(calls[l]) = 2

(* ================= properties of the record encoding =================== *)
\* C15: for every database name db and compressed batch p, what Rewrite passes
\* to WriteCompressed after FlushBuffer queued url-escape(db) + ' ' + p is
\* (db, p): no decoding error, the same name, the same bytes, also for names
\* and batches that contain ' ', '+' or '%'.
C15_RecordRoundTrip ==
    (fnCall.fn = "codec" /\ fnCall.pc = "sent") =>
        /\ fnCall.err = ""
        /\ fnCall.outDb = fnCall.db
        /\ fnCall.outP = fnCall.p

\* the name "d %" with the batch ' ', 0x1f went through the FileQueue as
\* d+%25, ' ', ' ', 0x1f
C15_Witness ==
    /\ fnCall.fn = "codec" /\ fnCall.pc = "sent"
    /\ fnCall.db = <<100, 32, 37>>
    /\ fnCall.p = <<32, 31>>
    /\ fnCall.rec = <<100, 43, 37, 50, 53, 32, 32, 31>>

(* ====================== properties of IsForbiddenDB ==================== *)
\* C16: for every database name db and every allow-list, IsForbiddenDB(db) is
\* true exactly when db is "_internal", or the list is not empty and db is
\* not in it.
C16_IsForbiddenDB ==
    (fnCall.fn = "IsForbiddenDB" /\ fnCall.pc = "done") =>
        (fnCall.out <=>
            \/ fnCall.db = "_internal"
            \/ (Len(fnCall.list) > 0 /\ \A i \in 1..Len(fnCall.list) : fnCall.list[i] # fnCall.db))

\* "_internal" is refused although the allow-list names it
C16_Witness ==
    /\ fnCall.fn = "IsForbiddenDB" /\ fnCall.pc = "done"
    /\ fnCall.db = "_internal"
    /\ fnCall.list = <<"db1", "_internal">>
    /\ fnCall.out

\* the handler of request slot r writes its response in this step
Answered(r) == req'[r].pc = "done" /\ req'[r] # req[r]

\* the operator goroutines started in this step by a `go` statement
StartedJobs == {j \in 1..MaxJobs : jobs[j].pc = "none" /\ jobs'[j].pc = "spawned"}

\* C19: a /rebalance, /recovery, /resync or /cleanup request is answered 202
\* if and only if the step that answers it starts exactly one operator job,
\* which has not begun to run when the 202 is written; a refused or invalid
\* request is answered with another status and starts no job, and no job
\* starts without a 202.
C19_AcceptedIffJobStarted ==
    [][/\ \A r \in 1..MaxReqs :
             Answered(r) => (req'[r].status = 202 <=> Cardinality(StartedJobs) = 1)
       /\ \A r \in 1..MaxReqs :
             (Answered(r) /\ req'[r].why # "accepted") =>
                 (req'[r].status # 202 /\ StartedJobs = {})
       /\ StartedJobs # {} => \E r \in 1..MaxReqs : Answered(r) /\ req'[r].status = 202]_vars

\* the parameters of hs.tx an operator goroutine reads
TxParams == <<txWorker, txBatch, txLimit, txHaAddrs>>

\* an operator goroutine started before this step is still alive after it
JobAlive == \E j \in 1..MaxJobs : jobs[j].pc \in {"spawned", "running"} /\ jobs'[j].pc # "none"

\* C20: the worker, batch, limit and HA peer list an operator uses are those
\* of the request that admitted it: while an operator job is alive, no step of
\* another admin request, admitted or refused, changes hs.tx.Worker,
\* hs.tx.Batch, hs.tx.Limit or hs.tx.HaAddrs.
C20_ParamsFixedAtAdmission == [][JobAlive => TxParams' = TxParams]_vars

(* ================== properties of the worker's batching ================ *)
\* the WriteCompressed calls of backend b in progress: the flush tasks inside
\* the call and the RewriteLoop goroutines inside the call of Rewrite
FlushCalls(b) == {t \in tasks[b] : t.pc = "http"}
RewriteCalls(b) == {i \in 1..MaxLoops : loops[b][i].pc = "http"}

\* C21: the WriteCompressed calls of one Backend in progress at the same time,
\* those of flush tasks and of the rewrite loop counted together, are at most
\* connPoolSize.
C21_ConcurrentCallsBounded ==
    Cardinality(FlushCalls(B0)) + Cardinality(RewriteCalls(B0)) <= connPoolSize

\* a payload of whole lines: every line id is followed by one '\n', and the
\* ids are in the order WritePoint accepted them
WholeLines(p) ==
    /\ Len(p) % 2 = 0
    /\ \A i \in 1..Len(p) : (i % 2 = 1) <=> (p[i] # NL)
    /\ \A i, j \in 1..Len(p) : (i < j /\ p[i] # NL /\ p[j] # NL) => p[i] < p[j]

\* the batches FlushBuffer detached and gave to pool.Submit
Batches(b) == {t.p : t \in tasks[b]} \cup {t.p : t \in doneTasks[b]}

\* the number of buffers and batches of backend b that hold line id
Holders(b, id) ==
    Cardinality({db \in DBs : id \in LinesOf(buffers[b][db].Buffer)})
    + Cardinality({p \in Batches(b) : id \in LinesOf(p)})
    + (IF id \in lost[b] THEN 1 ELSE 0)

\* the worker takes a point from ib.chWrite in this step
Receives(b) == Len(chWrite'[b]) < Len(chWrite[b])

\* C22: within one Backend a received line is appended, with exactly one
\* newline after it, to the end of the buffer of its database and to no
\* other; FlushBuffer hands the buffer of a database as it is to the pool as
\* one batch of that database; so every batch is made of whole lines in the
\* order of their receipt, and every received line is in exactly one buffer or
\* batch.
C22_BatchOrder ==
    /\ [][Receives(B0) =>
             LET point == Head(chWrite[B0])
             IN /\ buffers'[B0][point.db].Buffer =
                      buffers[B0][point.db].Buffer \o <<point.id, NL>>
                /\ \A db \in DBs \ {point.db} : buffers'[B0][db] = buffers[B0][db]]_vars
    /\ [][\A db \in DBs :
             (buffers[B0][db].Buffer # <<>> /\ buffers'[B0][db].Buffer = <<>>) =>
                 \/ \E t \in tasks'[B0] \ tasks[B0] :
                        t.db = db /\ t.p = buffers[B0][db].Buffer /\ t.pc = "start"
                 \/ /\ poolReleased[B0]
                    /\ lost'[B0] = lost[B0] \cup LinesOf(buffers[B0][db].Buffer)]_vars
    /\ [](/\ \A db \in DBs : WholeLines(buffers[B0][db].Buffer)
          /\ \A p \in Batches(B0) : WholeLines(p)
          /\ \A id \in handed[B0] \ InChannel(B0) : Holders(B0, id) = 1)

\* a batch of two lines of one database, the first received without a newline
\* and the second with one, while the third line is in a batch of its own
C22_Witness ==
    /\ \E p \in Batches(B0) : p = <<1, NL, 2, NL>>
    /\ \E p \in Batches(B0) : p = <<3, NL>>

\* the flush tasks of backend b that have issued their WriteCompressed call
Issued(b) == FlushCalls(b) \cup {t \in doneTasks[b] : t.sawActive}

\* the batch of payload p was flushed before the batch of payload q: its lines
\* were received earlier
FlushedBefore(p, q) == \A i \in LinesOf(p), j \in LinesOf(q) : i < j

\* C23: of two batches of the same database flushed by one Backend while it
\* is active, the one flushed first has its WriteCompressed call issued first:
\* no flush task has issued the call while the task of an earlier batch of
\* the same database has not.
C23_SubmissionOrder ==
    \A t1 \in tasks[B0] : \A t2 \in Issued(B0) :
        (t1.db = t2.db /\ FlushedBefore(t1.p, t2.p)) => t1.pc # "start"

\* the handler of slot 1 runs its first statement in this step
Enters == req[1].pc \in {"idle", "done"} /\ <<req, fnCall>>' # <<req, fnCall>>

\* everything of the proxy but the response
ProxyState == <<backendVars, proxyVars, transferring, resyncing, txWorker, txBatch,
                txLimit, txHaAddrs, jobs>>

\* the presented pair, transformed as configured, is the stored pair
PairMatches(cfg, u, p) ==
    /\ (IF cfg.authEncrypt THEN "aes:" \o u ELSE u) = cfg.username
    /\ (IF cfg.authEncrypt THEN "aes:" \o p ELSE p) = cfg.password

\* C24: with a username or a password configured, a request to an
\* authenticated endpoint goes on into its handler only if its query pair
\* u/p or its basic-auth pair, transformed as configured (AES-encrypted when
\* auth_encrypt is true, unchanged otherwise), equals the stored username and
\* password; otherwise it is answered 401 and changes nothing of the proxy.
\* With neither configured every request goes on.
C24_CheckAuth ==
    [][(Enters /\ fnCall'.fn = "checkAuth") =>
          LET cfg == fnCall'.cfg
              rq == fnCall'.rq
          IN IF \/ cfg.username = "" /\ cfg.password = ""
                \/ PairMatches(cfg, rq.u, rq.p)
                \/ rq.basic /\ PairMatches(cfg, rq.bu, rq.bp)
                THEN req'[1].status # 401
                ELSE /\ req'[1].pc = "done" /\ req'[1].status = 401
                     /\ ProxyState' = ProxyState]_vars

\* under encrypted credentials a request with a wrong query pair and the
\* right basic-auth pair was let in and its handler went on to its checks
C24_Witness ==
    /\ fnCall.fn = "checkAuth" /\ fnCall.cfg.authEncrypt /\ fnCall.cfg.password # ""
    /\ fnCall.rq.u = "admin" /\ fnCall.rq.p = "x"
    /\ fnCall.rq.basic /\ fnCall.rq.bu = "admin" /\ fnCall.rq.bp = "secret"
    /\ fnCall.out
    /\ req[1].pc = "checkResyncing"

\* the CacheBuffer after FlushBuffer: no bytes, count 0
Empty(cb) == cb.Buffer = <<>> /\ cb.Counter = 0

\* FlushBuffer(db) returns in this step
Flushes(b, db) == workerPc[b] = "flush" /\ db \in toFlush[b] /\ db \notin toFlush'[b]

\* C25: when the worker has taken a point of database db into WriteBuffer and
\* db's count reached flushSize, FlushBuffer(db) is the next thing the worker
\* does: it leaves db's buffer with no bytes and count 0 and changes no other
\* buffer, and the timer is not touched; when the count is below flushSize the
\* buffer is kept, a timer is armed if none was, and an armed timer stays the
\* one it was.
C25_WriteBufferEffect ==
    /\ [][Receives(B0) =>
             LET db == Head(chWrite[B0]).db
             IN IF buffers[B0][db].Counter + 1 >= flushSize
                   THEN /\ workerPc'[B0] = "flush" /\ toFlush'[B0] = {db}
                        /\ chTimer'[B0] = chTimer[B0]
                   ELSE /\ workerPc'[B0] = "select"
                        /\ buffers'[B0][db].Counter = buffers[B0][db].Counter + 1
                        /\ buffers'[B0][db].Buffer # <<>>
                        /\ chTimer'[B0] # 0
                        /\ chTimer[B0] # 0 => chTimer'[B0] = chTimer[B0]]_vars
    /\ [][\A db \in DBs :
             Flushes(B0, db) =>
                 /\ Empty(buffers'[B0][db])
                 /\ \A other \in DBs \ {db} : buffers'[B0][other] = buffers[B0][other]
                 /\ chTimer'[B0] = chTimer[B0]]_vars
    /\ [](workerPc[B0] = "select" => \A db \in DBs : buffers[B0][db].Counter < flushSize)

\* the first point armed the timer, the second, of another database, left it
\* as it was, the third filled the first database's buffer, which was flushed
\* while the other buffer and the timer stayed
C25_Witness ==
    /\ workerPc[B0] = "select"
    /\ chTimer[B0] = 1
    /\ <<1, NL, 3, NL>> \in Batches(B0)
    /\ \E db \in DBs : Empty(buffers[B0][db]) /\ buffers[B0][db].present
    /\ \E db \in DBs : buffers[B0][db].Buffer = <<2, NL>> /\ buffers[B0][db].Counter = 1

\* the worker takes the case <-ib.chTimer in this step
TimerFires(b) ==
    /\ workerPc[b] = "select"
    /\ chWrite'[b] = chWrite[b]
    /\ workerPc'[b] \in {"select", "flush"}
    /\ toFlush'[b] # toFlush[b] \/ chTimer'[b] # chTimer[b] \/ closing'[b] # closing[b]
    /\ ~(chWrite[b] = <<>> /\ chClosed[b] /\ closing'[b])

\* the batch FlushBuffer(db) passes to pool.Submit in this step
Submitted(b, db) == [db |-> db, p |-> buffers[b][db].Buffer, pc |-> "start"]

\* C26: the step of the worker that takes the timer case disarms the timer and
\* starts FlushBuffer for exactly the buffers with a non-zero count; each of
\* these FlushBuffer calls passes the bytes of its buffer, under its database,
\* to pool.Submit as one batch; when Flush has returned every buffer has
\* count 0 and no bytes; and the next point the worker receives arms a timer
\* of its own.
C26_TimerFlush ==
    /\ [][TimerFires(B0) =>
             /\ chTimer[B0] # 0 /\ chTimer'[B0] = 0
             /\ toFlush'[B0] = NonEmptyBuffers(B0)
             /\ buffers' = buffers]_vars
    /\ [][\A db \in DBs :
             Flushes(B0, db) /\ buffers[B0][db].Counter > 0 =>
                 /\ Empty(buffers'[B0][db])
                 /\ IF poolReleased[B0]
                       THEN /\ tasks'[B0] = tasks[B0]
                            /\ lost'[B0] = lost[B0] \cup LinesOf(buffers[B0][db].Buffer)
                       ELSE /\ Submitted(B0, db) \notin tasks[B0]
                            /\ tasks'[B0] = tasks[B0] \cup {Submitted(B0, db)}]_vars
    /\ [](workerPc[B0] = "select" /\ chTimer[B0] = 0 =>
             \A db \in DBs : Empty(buffers[B0][db]))
    /\ [][Receives(B0) /\ chTimer[B0] = 0 =>
             chTimer'[B0] = Head(chWrite[B0]).id]_vars

\* two points of two databases were flushed by the timer as two batches, and
\* the third point armed a timer of its own
C26_Witness ==
    /\ workerPc[B0] = "select"
    /\ chTimer[B0] = 3
    /\ \E d1, d2 \in DBs :
          /\ d1 # d2
          /\ \E t \in tasks[B0] \cup doneTasks[B0] : t.db = d1 /\ t.p = <<1, NL>>
          /\ \E t \in tasks[B0] \cup doneTasks[B0] : t.db = d2 /\ t.p = <<2, NL>>
    /\ \E db \in DBs : buffers[B0][db].Buffer = <<3, NL>> /\ buffers[B0][db].Counter = 1

\* the number of lines held in a buffer: every line carries its id once
LineCount(p) == Cardinality({i \in 1..Len(p) : p[i] # NL})

\* C27: in every state the Counter of each CacheBuffer of the Backend is the
\* number of lines its Buffer holds, and a Buffer that is nil holds no bytes;
\* so the Counter is 0 exactly when the Buffer is nil or empty, also in the
\* state FlushBuffer leaves behind.
C27_CounterIsLineCount ==
    /\ \A db \in DBs :
          LET cb == buffers[B0][db]
          IN /\ cb.Counter = LineCount(cb.Buffer)
             /\ cb.isNil => cb.Buffer = <<>>
             /\ cb.Counter = 0 <=> (cb.isNil \/ cb.Buffer = <<>>)
    /\ [][\A db \in DBs : Flushes(B0, db) =>
             buffers'[B0][db].Counter = 0 /\ buffers'[B0][db].Buffer = <<>>]_vars

\* one buffer was detached by a flush while the other holds one line
C27_Witness ==
    /\ \E db \in DBs : /\ buffers[B0][db].present /\ buffers[B0][db].isNil
                        /\ buffers[B0][db].Counter = 0
    /\ \E db \in DBs : ~buffers[B0][db].isNil /\ buffers[B0][db].Counter = 1
                            /\ Len(buffers[B0][db].Buffer) = 2
    /\ Batches(B0) # {}

\* line id is held in a buffer of the worker
Buffered(b, id) == \E db \in DBs : id \in LinesOf(buffers[b][db].Buffer)

\* line id was passed to pool.Submit in a batch
InBatch(b, id) == (\E p \in Batches(b) : id \in LinesOf(p)) \/ id \in lost[b]

\* C28: whenever the worker is at its select and some buffer has a non-zero
\* count, a flush timer is armed; and every line the worker has received is
\* eventually passed to pool.Submit in a batch, whatever the interleaving of
\* points of several databases, flushes on size, flushes on the timer and Close.
C28_BufferedLinesAreFlushed ==
    /\ [](workerPc[B0] = "select" /\ NonEmptyBuffers(B0) # {} => chTimer[B0] # 0)
    /\ \A id \in 1..MaxWorkerPoints : Buffered(B0, id) ~> InBatch(B0, id)

\* a flush on size emptied one database's buffer while a line of the other
\* database waits in its buffer under the timer armed before
C28_Witness ==
    /\ workerPc[B0] = "select"
    /\ ~chClosed[B0]
    /\ InBatch(B0, 1) /\ InBatch(B0, 3) /\ Buffered(B0, 2)
    /\ chTimer[B0] = 1

(* ================= properties of the Proxy's lock ====================== *)
\* the backends WritePoint was called on for line l, and those that took it
Receivers(l) == {calls[l][i] : i \in 1..Len(calls[l])} \cup {b \in Backends : l \in handed[b]}

\* C29: the backends that receive a line all belong to the one generation of
\* ip.circles that GetBackends captured for it, and to no other, also when
\* ReloadConfig replaces ip.circles between two WritePoint calls of the line:
\* the replacement leaves the captured backends of a fan-out under way as they
\* are.
C29_OneGenerationPerLine ==
    /\ [](\A l \in 1..MaxLines :
             lineInfo[l].gen > 0 =>
                 /\ Receivers(l) \subseteq GenBackends(lineInfo[l].gen)
                 /\ \A g \in 1..Len(Generations) :
                       g # lineInfo[l].gen => Receivers(l) \cap GenBackends(g) = {})
    /\ [][circles' # circles /\ writer.pc = "fanout" =>
             /\ writer'.backends = writer.backends
             /\ writer'.idx = writer.idx
             /\ lineInfo'[writer.line].gen = circles]_vars
    /\ [](writer.pc = "fanout" =>
             \A i \in 1..Len(writer.backends) :
                 writer.backends[i] \in GenBackends(lineInfo[writer.line].gen))

\* ReloadConfig replaced ip.circles after the first WritePoint of a line and
\* before its second
C29_Witness ==
    /\ writer.pc = "fanout" /\ writer.idx = 2
    /\ lineInfo[writer.line].gen = 1 /\ circles = 2
    /\ Len(calls[writer.line]) = 1
    /\ calls[writer.line][1] \in GenBackends(1)
    /\ writer.backends[2] \in GenBackends(1)

\* the goroutine of the write request waits in WritePoint on a full channel
WriterBlocked ==
    /\ writer.pc = "fanout"
    /\ ~chClosed[writer.backends[writer.idx]]
    /\ Len(chWrite[writer.backends[writer.idx]]) >= narrowChan

\* C30: a goroutine that holds ip.lock, in read or in write mode, does nothing
\* but release it: its step sends on no channel, closes no backend, starts no
\* backend and writes no file; WritePoint is called, and backends are closed,
\* only by a goroutine that holds no lock; so a request that waits on a full
\* channel holds no lock, and a ReloadConfig that has called Lock gets the
\* lock and replaces ip.circles, whether the channel is ever emptied or not.
C30_NoBlockingUnderLock ==
    /\ [](~(writer.rlock /\ reload.pc = "locked"))
    /\ [][writer.rlock /\ writer' # writer =>
             /\ ~writer'.rlock
             /\ calls' = calls /\ chWrite' = chWrite /\ handed' = handed
             /\ chClosed' = chClosed /\ fb' = fb /\ tasks' = tasks]_vars
    /\ [][reload.pc = "locked" /\ reload' # reload =>
             /\ reload'.pc = "close"
             /\ chClosed' = chClosed /\ poolReleased' = poolReleased
             /\ chWrite' = chWrite /\ workerPc' = workerPc /\ fb' = fb]_vars
    /\ [][calls' # calls => ~writer.rlock /\ ~writer'.rlock]_vars
    /\ [][chClosed' # chClosed => reload.pc = "close"]_vars
    /\ [](WriterBlocked => ~writer.rlock)
    /\ (reload.pc = "lockWait" ~> reload.pc \in {"close", "done"})

\* ReloadConfig holds ip.lock in write mode while a write request waits on the
\* full channel of a backend
C30_Witness == WriterBlocked /\ reload.pc = "locked"

(* ================= properties of the Backends' resources =============== *)
\* BackendConfig.Name of each Backend: the configuration read by the reload
\* keeps the names of the running one (DataDir is the same in both)
BackendName(b) == <<"influx1", "influx2", "influx3", "influx1", "influx3", "influx2">>[b]

\* NewBackend has opened the FileQueue of b and the worker of b has not closed it
QueueOpen(b) == workerPc[b] # "none" /\ ~fb[b].closed

\* C31: no two Backends with the same name have the FileQueue of that name
\* open at the same time: the Backend that ReloadConfig makes for a name
\* opens the queue files only after the old Backend of that name closed them.
C31_OneOpenQueuePerName ==
    \A b1, b2 \in Backends :
        (b1 # b2 /\ BackendName(b1) = BackendName(b2)) => ~(QueueOpen(b1) /\ QueueOpen(b2))

\* WritePoint is called on backend b for line l in this step
CallsWritePoint(l, b) ==
    /\ Len(calls'[l]) = Len(calls[l]) + 1
    /\ calls'[l][Len(calls'[l])] = b

\* C32: every WritePoint call of the fan-out is made on a Backend whose
\* chWrite has not been closed, and no request ends in the panic of a send on
\* a closed channel, for every interleaving of Proxy.Write with ReloadConfig.
C32_NoSendOnClosedChannel ==
    /\ [][\A l \in 1..MaxLines, b \in Backends : CallsWritePoint(l, b) => ~chClosed[b]]_vars
    /\ [](writer.pc # "panicked")

\* a RewriteLoop goroutine of b calls ib.fb.IsData, ib.fb.Read, WriteCompressed,
\* UpdateMeta or RollbackMeta in this step
LoopUsesResources(b) ==
    \E i \in 1..MaxLoops :
        loops[b][i].pc \in {"check", "http"} /\ loops'[b][i] # loops[b][i]

\* a flush task of b calls WriteCompressed or ib.fb.Write in this step
TaskUsesResources(b) == tasks'[b] # tasks[b] /\ workerPc'[b] = workerPc[b]

\* C33: once the worker has closed the HttpClient and the FileQueue, no
\* goroutine of the Backend makes a FileQueue call or a WriteCompressed call: a
\* rewrite loop that was running or sleeping at that moment makes none.
C33_NoUseAfterClose ==
    [][workerPc[B0] = "exited" =>
           ~LoopUsesResources(B0) /\ ~TaskUsesResources(B0)]_vars

(* ================= properties of refused admin requests ================ *)
\* the flags and parameters held by hs.tx
TransferState == <<transferring, resyncing, txWorker, txBatch, txLimit, txHaAddrs>>

\* C34: the step that answers a /rebalance, /recovery, /resync or /cleanup
\* request with an error status (circle transferring, proxy resyncing,
\* invalid circle id, invalid worker, batch, limit or ha_addrs) leaves the
\* transferring and resyncing flags and the worker, batch, limit and HA
\* parameters as they were.
C34_RefusalChangesNothing ==
    [][\A r \in 1..MaxReqs :
          (Answered(r) /\ req'[r].status # 202) => TransferState' = TransferState]_vars

(* ================= properties of /transfer/state ======================= *)
\* the request answered in this step
StateCall == fnCall'

\* C35: a POST /transfer/state answered 400 changes neither the resyncing
\* flag nor any circle's transferring flag; a request answered 200 sets
\* exactly the flags its form names to the values given and leaves every
\* other flag as it was.
C35_TransferStateFlags ==
    [][(StateCall.fn = "HandlerTransferState" /\ Answered(1)) =>
          LET f == StateCall.form
              post == f.method = "POST"
              named == post /\ (f.circle_id # "" \/ f.transferring # "")
          IN /\ StateCall.status \in {200, 400}
             /\ StateCall.status = 400 =>
                   resyncing' = resyncing /\ transferring' = transferring
             /\ StateCall.status = 200 =>
                   /\ resyncing' = IF post /\ f.resyncing # ""
                                      THEN f.resyncing = "true" ELSE resyncing
                   /\ \A c \in CircleIds :
                         transferring'[c] =
                            IF named /\ f.circle_id = (IF c = 0 THEN "0" ELSE "1")
                               THEN f.transferring = "true" ELSE transferring[c]]_vars

(* ====================== properties of /reload ========================== *)
\* the reloadable part of a configuration: its circles and its DBList
Reloadable(cfg) == cfg.gen
\* the items kept in runtime
KeptItems(cfg) == <<cfg.listen_addr, cfg.idle_timeout, cfg.https_enabled>>
\* a circle is replaced or closed in this step
CirclesTouched ==
    \/ circles' # circles
    \/ chClosed' # chClosed
    \/ poolReleased' # poolReleased
    \/ \E b \in Backends : workerPc[b] = "none" /\ workerPc'[b] # "none"

\* C36: the circle vector and allow-list are swapped and the old circles
\* closed only for a /reload whose file differs from the running
\* configuration in a reloadable item; a file that is unchanged or differs
\* only in listen address, idle timeout or TLS settings replaces and closes
\* no circle and leaves the running configuration as it was, and the items
\* kept in runtime never change.
C36_ReloadOnlyOnReloadableChange ==
    /\ [][CirclesTouched =>
             (fnCall'.fn = "HandlerReload" /\ fnCall'.status = 0
                /\ Reloadable(fnCall'.file) # Reloadable(hsCfg))]_vars
    /\ [][(fnCall' # fnCall /\ fnCall'.fn = "HandlerReload"
              /\ Reloadable(fnCall'.file) = Reloadable(hsCfg)) =>
             /\ fnCall'.status = 500
             /\ ~CirclesTouched
             /\ reload' = reload
             /\ hsCfg' = hsCfg]_vars
    /\ [][KeptItems(hsCfg') = KeptItems(hsCfg)]_vars

\* a file that changes the listener only was answered 500 after a reload
\* that replaced the circles
C36_Witness ==
    /\ circles = Len(Generations)
    /\ reload.pc = "done"
    /\ hsCfg.gen = Len(Generations)
    /\ fnCall.fn = "HandlerReload" /\ fnCall.status = 500
    /\ fnCall.why = "config changed, but ignored"
    /\ fnCall.file.listen_addr # hsCfg.listen_addr
    /\ \A b \in GenBackends(1) : chClosed[b]

====
